---- MODULE Spec2Model ----
(***************************************************************************)
(* mould: the per-connection dispatcher (server.rs, process_session) and   *)
(* the session codec (session.rs, Context), driven over a Suite of         *)
(* registered services.  One handler of the dispatcher = one action: the   *)
(* pull of one inbound message, its decoding, the worker call, the pushes  *)
(* and the error exit of the session loop.                                 *)
(***************************************************************************)
EXTENDS Integers, Sequences, FiniteSets, TLC

VARIABLES
    catalog,            \* the (name, Service) pairs main() may hand to register
    client,             \* what the peers do: the pulls they cause, the workers they keep
    services,           \* Suite.services: HashMap<String, Box<Service>>
    serving,            \* the Suite has been handed to start(); no register after
    pc,                 \* per connection: where process_session stands
    session,            \* per connection: Context.session, the user state
    worker,             \* per connection: the local `worker` of the request loop
    steps,              \* per connection: passes of the streaming loop so far
    suspended_workers,  \* per connection: the Slab of parked workers
    alive,              \* per connection: ids of workers that exist (not dropped)
    panicked,           \* per connection: the thread died in unwrap()
    last,               \* per connection: what the last handler did (history)
    reqlog,             \* per connection: events of the request in progress (history)
    probe               \* a call of library code outside the dispatcher: input and result

vars == <<catalog, client, services, serving, pc, session, worker, steps, suspended_workers,
          alive, panicked, last, reqlog, probe>>

-----------------------------------------------------------------------------
(* Bounds of the model *)

MaxWorkers == 2     \* workers of one connection that exist at the same time
MaxSteps == 1       \* passes of one streaming loop that keep the stream open
MaxItems == 1       \* items of one ManyItems iterator
MaxLines == 3       \* lines of a finite input
MaxFrames == 3      \* frames a websocket peer sends before it is gone
MaxElems == 2       \* elements of one array or object literal

(* Program constants *)

Capacity == 10      \* Slab::with_capacity(10)

ServiceNames == {"s1", "s2"}    \* the service names a client may ask for
SessionStates == {0, 1}         \* the values of the user session state T

-----------------------------------------------------------------------------
(* rustc_serialize::json::Json values, as far as recv/send look at them *)

JNull == [k |-> "null"]
JStr(s) == [k |-> "str", s |-> s]
JU64(n) == [k |-> "u64", n |-> n]
JObj(o) == [k |-> "obj", o |-> o]
NotJson == [k |-> "bad"]        \* text Json::from_str rejects

EmptyObject == [x \in {} |-> JNull]

\* a key left out of an object
Absent == [k |-> "absent"]

\* the data of a request: the well-formed ones, and one with each field
\* missing or of the wrong type
RequestData(service, action, payload) ==
    [x \in {y \in {"service"} : service # Absent}
              \cup {y \in {"action"} : action # Absent}
              \cup {y \in {"payload"} : payload # Absent}
        |-> CASE x = "service" -> service
              [] x = "action"  -> action
              [] x = "payload" -> payload]

RequestObjects ==
    { RequestData(JStr(n), JStr("a"), JObj(EmptyObject)) : n \in ServiceNames }
      \cup { RequestData(s, JStr("a"), JObj(EmptyObject)) : s \in {Absent, JU64(0)} }
      \cup { RequestData(JStr("s1"), a, JObj(EmptyObject)) : a \in {Absent, JNull} }
      \cup { RequestData(JStr("s1"), JStr("a"), o) : o \in {Absent, JNull} }

\* an envelope {"event": e, "data": d}
Envelope(e, d) ==
    JObj([x \in {y \in {"event"} : e # Absent} \cup {y \in {"data"} : d # Absent}
            |-> IF x = "event" THEN e ELSE d])

\* the TaskIds a client may send: every slot the bounds can fill and one
\* past the end of the table
TaskInputs == (0..(MaxWorkers - 1)) \cup {Capacity}

\* the texts a client can put on the wire
Messages ==
    { NotJson, JNull }
      \cup { Envelope(Absent, Absent), Envelope(JU64(0), Absent) }
      \cup { Envelope(JStr("request"), d) :
               d \in { Absent, JNull } \cup { JObj(o) : o \in RequestObjects } }
      \cup { Envelope(JStr("next"), d) :
               d \in { Absent, JNull, JStr("x"),
                       JObj([action |-> JStr("a"), payload |-> JObj(EmptyObject)]),
                       JObj([payload |-> JObj(EmptyObject)]) } }
      \cup { Envelope(JStr("resume"), d) :
               d \in { Absent, JStr("x") } \cup { JU64(n) : n \in TaskInputs } }
      \cup { Envelope(JStr(e), Absent) : e \in {"suspend", "cancel", "bogus"} }

\* flow.rs: what Flow::pull returns
PullResults ==
    { [k |-> "some", content |-> m] : m \in Messages }
      \cup { [k |-> "none"] }
      \cup { [k |-> "err", e |-> fe] : fe \in {"ConnectionBroken", "BadMessageEncoding"} }

-----------------------------------------------------------------------------
(* session.rs: Error, Input, Output, Alternative *)

Err(e) == [e |-> e, cause |-> ""]
ErrWith(e, cause) == [e |-> e, cause |-> cause]
NoError == Err("None")

Ok(v) == [ok |-> TRUE, v |-> v]
Er(e) == [ok |-> FALSE, err |-> e]

Request(action, payload) == [action |-> action, payload |-> payload]
None == [some |-> FALSE]
Some(v) == [some |-> TRUE, v |-> v]

InputRequest(service, request) == [t |-> "Request", service |-> service, request |-> request]
InputNext(request) == [t |-> "Next", request |-> request]
InputSuspend == [t |-> "Suspend"]
InputResume(task_id) == [t |-> "Resume", task_id |-> task_id]

Usual(v) == [alt |-> "Usual", v |-> v]
Unusual(v) == [alt |-> "Unusual", v |-> v]

Ready == [o |-> "Ready"]
Item(data) == [o |-> "Item", data |-> data]
Done == [o |-> "Done"]
Reject(message) == [o |-> "Reject", message |-> message]
Fail(message) == [o |-> "Fail", message |-> message]
Suspended(task_id) == [o |-> "Suspended", task_id |-> task_id]

\* description with the texts of ServiceNotFound and WorkerNotFound exchanged
descriptionMixed(err) ==
    CASE err.e = "IllegalJsonFormat"    -> "illegal json format"
      [] err.e = "IllegalEventType"     -> "illegal event type"
      [] err.e = "IllegalEventName"     -> "illegal event name"
      [] err.e = "IllegalMessage"       -> "illegal message"
      [] err.e = "IllegalDataFormat"    -> "illegal data format"
      [] err.e = "IllegalRequestFormat" -> "illegal request format"
      [] err.e = "ServiceNotFound"      -> "task not found"
      [] err.e = "DataNotProvided"      -> "data not provided"
      [] err.e = "UnexpectedState"      -> "unexpected state"
      [] err.e = "Canceled"             -> "cancelled"
      [] err.e = "ConnectionClosed"     -> "connection closed"
      [] err.e = "ConnectorFail"        -> "flow fail"
      [] err.e = "WorkerFailed"         -> err.cause
      [] err.e = "WorkerNotFound"       -> "service not found"
      [] err.e = "CannotSuspend"        -> "cannot suspend worker"

description(err) ==
    CASE err.e = "IllegalJsonFormat"    -> "illegal json format"
      [] err.e = "IllegalEventType"     -> "illegal event type"
      [] err.e = "IllegalEventName"     -> "illegal event name"
      [] err.e = "IllegalMessage"       -> "illegal message"
      [] err.e = "IllegalDataFormat"    -> "illegal data format"
      [] err.e = "IllegalRequestFormat" -> "illegal request format"
      [] err.e = "ServiceNotFound"      -> "service not found"
      [] err.e = "DataNotProvided"      -> "data not provided"
      [] err.e = "UnexpectedState"      -> "unexpected state"
      [] err.e = "Canceled"             -> "cancelled"
      [] err.e = "ConnectionClosed"     -> "connection closed"
      [] err.e = "ConnectorFail"        -> "flow fail"
      [] err.e = "WorkerFailed"         -> err.cause
      [] err.e = "WorkerNotFound"       -> "task not found"
      [] err.e = "CannotSuspend"        -> "cannot suspend worker"

\* impl fmt::Display for Error
to_string(err) ==
    IF err.e = "WorkerFailed" THEN err.cause ELSE description(err)

-----------------------------------------------------------------------------
(* session.rs: Context::recv and its two gates *)

IsStr(o, key) == key \in DOMAIN o /\ o[key].k = "str"
IsObj(o, key) == key \in DOMAIN o /\ o[key].k = "obj"

recv(p) ==
    IF p.k = "err" THEN Er(ErrWith("ConnectorFail", p.e))
    ELSE IF p.k = "none" THEN Er(Err("ConnectionClosed"))
    ELSE IF p.content.k # "obj" THEN Er(Err("IllegalJsonFormat"))
    ELSE LET data == p.content.o IN
    IF ~IsStr(data, "event") THEN Er(Err("IllegalEventType"))
    ELSE LET event == data["event"].s IN
    IF event = "request" THEN
        IF "data" \notin DOMAIN data THEN Er(Err("DataNotProvided"))
        ELSE IF data["data"].k # "obj" THEN Er(Err("IllegalDataFormat"))
        ELSE LET d == data["data"].o IN
            IF ~IsStr(d, "service") THEN Er(Err("IllegalRequestFormat"))
            ELSE IF ~IsStr(d, "action") THEN Er(Err("IllegalRequestFormat"))
            ELSE IF ~IsObj(d, "payload") THEN Er(Err("IllegalRequestFormat"))
            ELSE Ok(InputRequest(d["service"].s,
                                 Request(d["action"].s, d["payload"].o)))
    ELSE IF event = "next" THEN
        IF "data" \notin DOMAIN data THEN Ok(InputNext(None))
        ELSE IF data["data"].k = "null" THEN Ok(InputNext(None))
        ELSE IF data["data"].k # "obj" THEN Er(Err("IllegalDataFormat"))
        ELSE LET d == data["data"].o IN
            IF ~IsStr(d, "action") THEN Er(Err("IllegalRequestFormat"))
            ELSE IF ~IsObj(d, "payload") THEN Er(Err("IllegalRequestFormat"))
            ELSE Ok(InputNext(Some(Request(d["action"].s, d["payload"].o))))
    ELSE IF event = "resume" THEN
        IF "data" \in DOMAIN data /\ data["data"].k = "u64"
        THEN Ok(InputResume(data["data"].n))
        ELSE Er(Err("IllegalDataFormat"))
    ELSE IF event = "suspend" THEN Ok(InputSuspend)
    ELSE IF event = "cancel" THEN Er(Err("Canceled"))
    ELSE Er(ErrWith("IllegalEventName", event))

\* one pull for every Input and every Error recv can answer with: pulls that
\* recv decodes alike are one and the same to the dispatcher
Pulls == { p \in PullResults : p = CHOOSE q \in PullResults : recv(q) = recv(p) }

\* the gate of Idle swallowing what it does not expect
recv_request_or_resumeLax(p) ==
    LET r == recv(p) IN
    IF ~r.ok THEN r
    ELSE IF r.v.t = "Request" THEN Ok(Usual(<<r.v.service, r.v.request>>))
    ELSE IF r.v.t = "Resume" THEN Ok(Unusual(r.v.task_id))
    ELSE Er(Err("Canceled"))

recv_request_or_resume(p) ==
    LET r == recv(p) IN
    IF ~r.ok THEN r
    ELSE IF r.v.t = "Request" THEN Ok(Usual(<<r.v.service, r.v.request>>))
    ELSE IF r.v.t = "Resume" THEN Ok(Unusual(r.v.task_id))
    ELSE Er(Err("UnexpectedState"))

recv_next_or_suspend(p) ==
    LET r == recv(p) IN
    IF ~r.ok THEN r
    ELSE IF r.v.t = "Next" THEN Ok(Usual(r.v.request))
    ELSE IF r.v.t = "Suspend" THEN Ok(Unusual(<<>>))
    ELSE Er(Err("UnexpectedState"))

\* Context::send with the event names of Ready and Done mixed up
sendMixed(out) ==
    CASE out.o = "Item"      -> [event |-> JStr("item"), data |-> JObj(out.data)]
      [] out.o = "Ready"     -> [event |-> JStr("done")]
      [] out.o = "Done"      -> [event |-> JStr("done")]
      [] out.o = "Reject"    -> [event |-> JStr("reject"), data |-> JStr(out.message)]
      [] out.o = "Fail"      -> [event |-> JStr("fail"), data |-> JStr(out.message)]
      [] out.o = "Suspended" -> [event |-> JStr("suspended"), data |-> JU64(out.task_id)]

\* session.rs: Context::send builds the wire object of an Output
send(out) ==
    CASE out.o = "Item"      -> [event |-> JStr("item"), data |-> JObj(out.data)]
      [] out.o = "Ready"     -> [event |-> JStr("ready")]
      [] out.o = "Done"      -> [event |-> JStr("done")]
      [] out.o = "Reject"    -> [event |-> JStr("reject"), data |-> JStr(out.message)]
      [] out.o = "Fail"      -> [event |-> JStr("fail"), data |-> JStr(out.message)]
      [] out.o = "Suspended" -> [event |-> JStr("suspended"), data |-> JU64(out.task_id)]

-----------------------------------------------------------------------------
(* slab::Slab with a fixed capacity: a vector of slots threaded by a free  *)
(* list; insert takes the head of the free list, remove pushes the slot    *)
(* back on it.                                                             *)

Empty(next) == [k |-> "Empty", next |-> next]
Filled(val) == [k |-> "Filled", val |-> val]

with_capacity(capacity) ==
    [entries |-> [i \in 0..(capacity - 1) |-> Empty(i + 1)], next |-> 0]

\* insert answering with the new head of the free list instead of the slot
insertAhead(slab, val) ==
    IF slab.next \notin DOMAIN slab.entries
    THEN [ok |-> FALSE, slab |-> slab]
    ELSE [ok |-> TRUE, task_id |-> slab.entries[slab.next].next,
          slab |-> [entries |-> [slab.entries EXCEPT ![slab.next] = Filled(val)],
                    next |-> slab.entries[slab.next].next]]

\* insert that takes the first slot when the free list is exhausted
insertOver(slab, val) ==
    IF slab.next \notin DOMAIN slab.entries
    THEN [ok |-> TRUE, task_id |-> 0,
          slab |-> [entries |-> [slab.entries EXCEPT ![0] = Filled(val)],
                    next |-> slab.next]]
    ELSE [ok |-> TRUE, task_id |-> slab.next,
          slab |-> [entries |-> [slab.entries EXCEPT ![slab.next] = Filled(val)],
                    next |-> slab.entries[slab.next].next]]

insert(slab, val) ==
    IF slab.next \notin DOMAIN slab.entries
    THEN [ok |-> FALSE, slab |-> slab]
    ELSE [ok |-> TRUE, task_id |-> slab.next,
          slab |-> [entries |-> [slab.entries EXCEPT ![slab.next] = Filled(val)],
                    next |-> slab.entries[slab.next].next]]

\* remove that hands the value out and leaves the slot filled
removePeek(slab, task_id) ==
    IF task_id \in DOMAIN slab.entries /\ slab.entries[task_id].k = "Filled"
    THEN [found |-> TRUE, val |-> slab.entries[task_id].val, slab |-> slab]
    ELSE [found |-> FALSE, slab |-> slab]

remove(slab, task_id) ==
    IF task_id \in DOMAIN slab.entries /\ slab.entries[task_id].k = "Filled"
    THEN [found |-> TRUE, val |-> slab.entries[task_id].val,
          slab |-> [entries |-> [slab.entries EXCEPT ![task_id] = Empty(slab.next)],
                    next |-> task_id]]
    ELSE [found |-> FALSE, slab |-> slab]

\* the TaskIds in use and the workers parked under them
TaskIds(slab) == { i \in DOMAIN slab.entries : slab.entries[i].k = "Filled" }
Parked(slab) == { slab.entries[i].val : i \in TaskIds(slab) }

-----------------------------------------------------------------------------
(* Workers.  A worker is the object service.route() returns; the model     *)
(* keeps its identity, the service that built it and whether it has been   *)
(* prepared.  What prepare/realize answer is the worker author's business: *)
(* every answer the dispatcher matches on is possible.                     *)

NoWorker == [id |-> 0, svc |-> "-", prepared |-> 0]

\* the identity of a new worker: the least one no existing worker has
FreeIds(al) == (1..client.workers) \ al
FreshId(al) == CHOOSE i \in FreeIds(al) : \A j \in FreeIds(al) : i <= j

\* Service::route: a fresh worker
route(service, id) == [id |-> id, svc |-> service, prepared |-> 0]

ShortcutResults ==
    { Ok([s |-> "Tuned"]), Ok([s |-> "Done"]), Ok([s |-> "Reject", reason |-> "no"]),
      Er(ErrWith("WorkerFailed", "worker error")) }

RealizeResults ==
    { Ok([r |-> "OneItem"]), Ok([r |-> "OneItemAndDone"]),
      Ok([r |-> "Reject", reason |-> "no"]), Ok([r |-> "Done"]),
      Er(ErrWith("WorkerFailed", "worker error")) }
      \cup { Ok([r |-> "ManyItems", n |-> n]) : n \in 0..MaxItems }
      \cup { Ok([r |-> "ManyItemsAndDone", n |-> n]) : n \in 0..MaxItems }

KeepsStreaming(res) == res.ok /\ res.v.r \in {"OneItem", "ManyItems"}

Items(n) == [i \in 1..n |-> Item(EmptyObject)]

\* the session states a worker call may leave behind (DerefMut for Context)
Mutations(s) == SessionStates

-----------------------------------------------------------------------------
(* Suite *)

\* an insert that keeps the service a name already has
registerKeep(svcs, name, service) ==
    [n \in (DOMAIN svcs) \cup {name} |-> IF n \in DOMAIN svcs THEN svcs[n] ELSE service]

\* HashMap::insert
register(svcs, name, service) ==
    [n \in (DOMAIN svcs) \cup {name} |-> IF n = name THEN service ELSE svcs[n]]

-----------------------------------------------------------------------------
(* process_session *)

Conns == DOMAIN pc

\* a worker that is never dropped
UnwindLeak(al, w) == al

\* the closure returns or the request loop starts over: the local `worker`
\* goes out of scope and is dropped
Unwind(al, w) == al \ {w.id}

\* what one pass through the closure hands to the session loop
\* no worker call was made
NoResult == Er(NoError)

Outcome(outs, err, npc, held, slab, sess, al, called, w) ==
    [outs |-> outs, err |-> err, pc |-> npc, held |-> held, slab |-> slab,
     session |-> sess, alive |-> al, called |-> called, w |-> w,
     res |-> NoResult]

\* the outcome of a pass in which prepare or realize returned res
Returned(oc, res) == [oc EXCEPT !.res = res]

\* the match without its Canceled arm
ReportedCancel(err) ==
    err.e \notin {"None", "ConnectorFail", "ConnectionClosed"}

\* the match without its ConnectionClosed arm
ReportedClose(err) ==
    err.e \notin {"None", "Canceled", "ConnectorFail"}

\* the match on the closure's result: which error is reported with a fail
Reported(err) ==
    err.e \notin {"None", "Canceled", "ConnectorFail", "ConnectionClosed"}

\* std::io::BufRead::read_line with `left` lines of input left: the bytes
\* read and the buffer, or an io::Error
read_line(left) ==
    IF left = 0 THEN { [k |-> "ok", read |-> 0, buf |-> NotJson] }
    ELSE { [k |-> "ok", read |-> 1, buf |-> m] :
             m \in { Envelope(JStr("request"),
                              JObj(RequestData(JStr("s1"), JStr("a"), JObj(EmptyObject)))),
                     Envelope(JStr("next"), Absent), Envelope(JStr("suspend"), Absent),
                     Envelope(JStr("cancel"), Absent), Envelope(JStr("resume"), JU64(0)) } }
         \cup { [k |-> "err"] }

\* server.rs, iomould: IoFlow::pull
iomould_pull(rl) ==
    IF rl.k = "err" THEN [k |-> "err", e |-> "ConnectionBroken"]
    ELSE IF rl.read > 0 THEN [k |-> "some", content |-> rl.buf]
    ELSE [k |-> "none"]

\* connector.rs: IoFlow::pull
connector_pull(rl) ==
    IF rl.k = "err" THEN [k |-> "err", e |-> "ConnectionBroken"]
    ELSE [k |-> "some", content |-> rl.buf]

\* the peer of a line-delimited flow with `left` lines still to be read
LineClient(flow, left) ==
    [pulls |-> { IF flow = "iomould" THEN iomould_pull(rl) ELSE connector_pull(rl)
                   : rl \in read_line(left) },
     workers |-> 1, flow |-> flow, lines |-> left]

\* a pull takes one line off a finite input; other peers never run dry
AfterPull(cl) ==
    IF "lines" \in DOMAIN cl
    THEN LineClient(cl.flow, IF cl.lines > 0 THEN cl.lines - 1 ELSE 0)
    ELSE cl

\* every output handed to send by one handler, in order
Sends(oc) ==
    oc.outs \o (IF Reported(oc.err) THEN <<Fail(to_string(oc.err))>> ELSE <<>>)

EventOf(wireobj) == wireobj["event"].s

\* the events of one handler: the next it read in Streaming, then what it
\* pushed
HandlerEvents(l) ==
    (IF l.pc = "Streaming" /\ l.in.ok /\ l.in.v.t = "Next" THEN <<"next">> ELSE <<>>)
        \o [i \in 1..Len(l.out) |-> EventOf(l.out[i])]

\* a handler whose final send is not unwrapped: when the push of the fail
\* breaks the result is dropped and the request loop goes on
FinishIgnore(c, inp, oc, k) ==
    LET sends  == Sends(oc)
        pushed == [i \in 1..k |-> send(sends[i])]
        broke  == k < Len(sends)
        unwrap == broke /\ k >= Len(oc.outs)
        npc    == IF broke /\ ~unwrap THEN "Terminated"
                  ELSE IF unwrap THEN "Idle"
                  ELSE IF oc.err.e = "None" THEN oc.pc
                  ELSE IF oc.err.e = "Canceled" THEN "Idle"
                  ELSE IF oc.err.e \in {"ConnectorFail", "ConnectionClosed"}
                       THEN "Terminated"
                  ELSE "Idle"
        done   == [pc |-> pc[c], in |-> inp, err |-> oc.err, out |-> pushed,
                   flow |-> IF broke THEN "broken" ELSE "ok",
                   called |-> oc.called, w |-> oc.w, res |-> oc.res]
    IN  /\ pc' = [pc EXCEPT ![c] = npc]
        /\ session' = [session EXCEPT ![c] =
                        IF npc = "Terminated" THEN 0 ELSE oc.session]
        /\ worker' = [worker EXCEPT ![c] =
                        IF npc = "Streaming" THEN oc.held ELSE NoWorker]
        /\ steps' = [steps EXCEPT ![c] =
                        IF npc = "Streaming" /\ pc[c] = "Streaming" THEN @ + 1 ELSE 0]
        /\ alive' = [alive EXCEPT ![c] =
                        IF npc = "Terminated" THEN {}
                        ELSE IF npc = "Streaming" THEN oc.alive
                        ELSE Unwind(oc.alive, oc.held)]
        /\ suspended_workers' = [suspended_workers EXCEPT ![c] =
                        IF npc = "Terminated" THEN with_capacity(Capacity)
                        ELSE oc.slab]
        /\ panicked' = [panicked EXCEPT ![c] = unwrap]
        /\ last' = [last EXCEPT ![c] = done]
        /\ reqlog' = [reqlog EXCEPT ![c] =
                        IF npc # "Streaming" THEN <<>>
                        ELSE IF pc[c] = "Idle" THEN HandlerEvents(done)
                        ELSE reqlog[c] \o HandlerEvents(done)]
        /\ client' = AfterPull(client)
        /\ UNCHANGED <<catalog, services, serving, probe>>

\* One handler from its pull to the next pull.  k pushes succeed; if k is
\* less than the number of sends, push number k+1 returns a flow error.
Finish(c, inp, oc, k) ==
    LET sends  == Sends(oc)
        pushed == [i \in 1..k |-> send(sends[i])]
        broke  == k < Len(sends)
        unwrap == broke /\ k >= Len(oc.outs)
        npc    == IF broke THEN "Terminated"
                  ELSE IF oc.err.e = "None" THEN oc.pc
                  ELSE IF oc.err.e = "Canceled" THEN "Idle"
                  ELSE IF oc.err.e \in {"ConnectorFail", "ConnectionClosed"}
                       THEN "Terminated"
                  ELSE "Idle"
        done   == [pc |-> pc[c], in |-> inp, err |-> oc.err, out |-> pushed,
                   flow |-> IF broke THEN "broken" ELSE "ok",
                   called |-> oc.called, w |-> oc.w, res |-> oc.res]
    IN  /\ pc' = [pc EXCEPT ![c] = npc]
        /\ session' = [session EXCEPT ![c] =
                        IF npc = "Terminated" THEN 0 ELSE oc.session]
        /\ worker' = [worker EXCEPT ![c] =
                        IF npc = "Streaming" THEN oc.held ELSE NoWorker]
        /\ steps' = [steps EXCEPT ![c] =
                        IF npc = "Streaming" /\ pc[c] = "Streaming" THEN @ + 1 ELSE 0]
        /\ alive' = [alive EXCEPT ![c] =
                        IF npc = "Terminated" THEN {}
                        ELSE IF npc = "Streaming" THEN oc.alive
                        ELSE Unwind(oc.alive, oc.held)]
        /\ suspended_workers' = [suspended_workers EXCEPT ![c] =
                        IF npc = "Terminated" THEN with_capacity(Capacity)
                        ELSE oc.slab]
        /\ panicked' = [panicked EXCEPT ![c] = unwrap]
        /\ last' = [last EXCEPT ![c] = done]
        /\ reqlog' = [reqlog EXCEPT ![c] =
                        IF npc # "Streaming" THEN <<>>
                        ELSE IF pc[c] = "Idle" THEN HandlerEvents(done)
                        ELSE reqlog[c] \o HandlerEvents(done)]
        /\ client' = AfterPull(client)
        /\ UNCHANGED <<catalog, services, serving, probe>>

\* an error exit that loses the table
FailedClear(c, err) ==
    Outcome(<<>>, err, "Idle", worker[c], with_capacity(Capacity), session[c],
            alive[c] \ { w.id : w \in Parked(suspended_workers[c]) }, "none", NoWorker)

\* an error exit that builds the session state anew
FailedRebuild(c, err) ==
    Outcome(<<>>, err, "Idle", worker[c], suspended_workers[c], 0,
            alive[c], "none", NoWorker)

\* a closure pass that ends in an error before anything was touched
Failed(c, err) ==
    Outcome(<<>>, err, "Idle", worker[c], suspended_workers[c], session[c],
            alive[c], "none", NoWorker)

\* lines 46-66: a request is routed to a service and the worker prepared
RequestOutcomes(c, service_name) ==
    IF service_name \notin DOMAIN services
    THEN { Failed(c, Err("ServiceNotFound")) }
    ELSE IF FreeIds(alive[c]) = {} THEN {}
    ELSE LET id == FreshId(alive[c])
             w0 == route(services[service_name], id)
             w  == [w0 EXCEPT !.prepared = 1]
             al == alive[c] \cup {id}
         IN { Returned(
                IF ~res.ok
                THEN Outcome(<<>>, res.err, "Idle", w, suspended_workers[c], s2,
                             al, "prepare", w)
                ELSE IF res.v.s = "Done"
                THEN Outcome(<<Done>>, NoError, "Idle", w, suspended_workers[c], s2,
                             al, "prepare", w)
                ELSE IF res.v.s = "Reject"
                THEN Outcome(<<Reject(res.v.reason)>>, NoError, "Idle", w,
                             suspended_workers[c], s2, al, "prepare", w)
                ELSE Outcome(<<Ready>>, NoError, "Streaming", w,
                             suspended_workers[c], s2, al, "prepare", w),
                res)
              : res \in ShortcutResults, s2 \in Mutations(session[c]) }

RecvRequest(c) ==
    /\ pc[c] = "Idle"
    /\ \E p \in client.pulls :
         LET r == recv_request_or_resume(p) IN
         /\ r.ok /\ r.v.alt = "Usual"
         /\ \E oc \in RequestOutcomes(c, r.v.v[1]) :
              \E k \in 0..Len(Sends(oc)) : Finish(c, recv(p), oc, k)

\* a resume that looks into the tables of the other connections too
ResumeOutcomeAny(c, task_id) ==
    LET holders == { d \in Conns : remove(suspended_workers[d], task_id).found } IN
    IF holders = {}
    THEN Failed(c, Err("WorkerNotFound"))
    ELSE LET d  == IF c \in holders THEN c ELSE CHOOSE x \in holders : TRUE
             rm == remove(suspended_workers[d], task_id)
         IN  Outcome(<<Ready>>, NoError, "Streaming", rm.val,
                     IF d = c THEN rm.slab ELSE suspended_workers[c], session[c],
                     alive[c] \cup {rm.val.id}, "none", rm.val)

\* lines 67-76: a resume takes the worker out of the table
\* a resume that prepares the worker it takes out of the table once more
ResumeOutcomeAgain(c, task_id) ==
    LET rm == remove(suspended_workers[c], task_id) IN
    IF rm.found
    THEN LET w == [rm.val EXCEPT !.prepared = @ + 1] IN
         Outcome(<<Ready>>, NoError, "Streaming", w, rm.slab, session[c],
                 alive[c], "prepare", w)
    ELSE Failed(c, Err("WorkerNotFound"))

ResumeOutcome(c, task_id) ==
    LET rm == remove(suspended_workers[c], task_id) IN
    IF rm.found
    THEN Outcome(<<Ready>>, NoError, "Streaming", rm.val, rm.slab, session[c],
                 alive[c], "none", rm.val)
    ELSE Failed(c, Err("WorkerNotFound"))

RecvResume(c) ==
    /\ pc[c] = "Idle"
    /\ \E p \in client.pulls :
         LET r == recv_request_or_resume(p) IN
         /\ r.ok /\ r.v.alt = "Unusual"
         /\ LET oc == ResumeOutcome(c, r.v.v) IN
              \E k \in 0..Len(Sends(oc)) : Finish(c, recv(p), oc, k)

\* lines 81-112: a next is handed to realize and its result is sent
NextOutcomes(c) ==
    LET w == worker[c] IN
    { Returned(
      IF ~res.ok
      THEN Outcome(<<>>, res.err, "Idle", w, suspended_workers[c], s2,
                   alive[c], "realize", w)
      ELSE LET outs == CASE res.v.r = "OneItem" -> <<Item(EmptyObject), Ready>>
                         [] res.v.r = "OneItemAndDone" -> <<Item(EmptyObject), Done>>
                         [] res.v.r = "ManyItems" -> Items(res.v.n) \o <<Ready>>
                         [] res.v.r = "ManyItemsAndDone" -> Items(res.v.n) \o <<Done>>
                         [] res.v.r = "Reject" -> <<Reject(res.v.reason)>>
                         [] res.v.r = "Done" -> <<Done>>
           IN Outcome(outs, NoError,
                      IF KeepsStreaming(res) THEN "Streaming" ELSE "Idle",
                      w, suspended_workers[c], s2, alive[c],
                      "realize", w),
      res)
      : res \in { x \in RealizeResults :
                    KeepsStreaming(x) => steps[c] < MaxSteps },
        s2 \in Mutations(session[c]) }

RecvNext(c) ==
    /\ pc[c] = "Streaming"
    /\ \E p \in client.pulls :
         LET r == recv_next_or_suspend(p) IN
         /\ r.ok /\ r.v.alt = "Usual"
         /\ \E oc \in NextOutcomes(c) :
              \E k \in 0..Len(Sends(oc)) : Finish(c, recv(p), oc, k)

\* lines 113-124: a suspend parks the worker in the table
SuspendOutcome(c) ==
    LET ins == insert(suspended_workers[c], worker[c]) IN
    IF ins.ok
    THEN Outcome(<<Suspended(ins.task_id)>>, NoError, "Idle", NoWorker, ins.slab,
                 session[c], alive[c], "none", worker[c])
    ELSE Outcome(<<>>, Err("CannotSuspend"), "Idle", worker[c],
                 suspended_workers[c], session[c], alive[c],
                 "none", worker[c])

RecvSuspend(c) ==
    /\ pc[c] = "Streaming"
    /\ \E p \in client.pulls :
         LET r == recv_next_or_suspend(p) IN
         /\ r.ok /\ r.v.alt = "Unusual"
         /\ LET oc == SuspendOutcome(c) IN
              \E k \in 0..Len(Sends(oc)) : Finish(c, recv(p), oc, k)

\* try!(session.recv_...()) returns the error of the gate to the session loop
RecvError(c) ==
    /\ pc[c] \in {"Idle", "Streaming"}
    /\ \E p \in client.pulls :
         LET r == IF pc[c] = "Idle" THEN recv_request_or_resume(p)
                                    ELSE recv_next_or_suspend(p) IN
         /\ ~r.ok
         /\ LET oc == Failed(c, r.err) IN
              \E k \in 0..Len(Sends(oc)) : Finish(c, recv(p), oc, k)

\* Suite::register, before the suite is served
Register(name, service) ==
    /\ ~serving
    /\ services' = register(services, name, service)
    /\ UNCHANGED <<catalog, client, serving, pc, session, worker, steps, suspended_workers,
                   alive, panicked, last, reqlog, probe>>

\* wsmould::start / iomould::start take the suite
Start ==
    /\ ~serving
    /\ serving' = TRUE
    /\ UNCHANGED <<catalog, client, services, pc, session, worker, steps, suspended_workers,
                   alive, panicked, last, reqlog, probe>>

\* a connection is accepted: process_session builds the Context and the Slab
Accept(c) ==
    /\ serving
    /\ pc[c] = "New"
    /\ pc' = [pc EXCEPT ![c] = "Idle"]
    /\ session' = [session EXCEPT ![c] = 0]
    /\ suspended_workers' = [suspended_workers EXCEPT ![c] = with_capacity(Capacity)]
    /\ UNCHANGED <<catalog, client, services, serving, worker, steps, alive, panicked, last,
                   reqlog, probe>>

NoHandler == [pc |-> "New", in |-> Er(NoError), err |-> NoError, out |-> <<>>,
              flow |-> "ok", called |-> "none", w |-> NoWorker, res |-> NoResult]

\* no library call is under way
NoProbe == [call |-> "none"]

InitSuite(C, entries, peers) ==
    /\ catalog = entries
    /\ client = peers
    /\ services = [n \in {} |-> "-"]
    /\ serving = FALSE
    /\ pc = [c \in C |-> "New"]
    /\ session = [c \in C |-> 0]
    /\ worker = [c \in C |-> NoWorker]
    /\ steps = [c \in C |-> 0]
    /\ suspended_workers = [c \in C |-> with_capacity(Capacity)]
    /\ alive = [c \in C |-> {}]
    /\ panicked = [c \in C |-> FALSE]
    /\ last = [c \in C |-> NoHandler]
    /\ reqlog = [c \in C |-> <<>>]

InitFor(C, entries, peers) ==
    /\ InitSuite(C, entries, peers)
    /\ probe = NoProbe

\* peers that send everything recv tells apart
AnyClient == [pulls |-> Pulls, workers |-> MaxWorkers]

Init == InitFor({"A"}, {<<"s1", "A">>}, AnyClient)

Next ==
    \/ \E entry \in catalog : Register(entry[1], entry[2])
    \/ Start
    \/ \E c \in Conns : Accept(c)
    \/ \E c \in Conns : RecvRequest(c)
    \/ \E c \in Conns : RecvResume(c)
    \/ \E c \in Conns : RecvNext(c)
    \/ \E c \in Conns : RecvSuspend(c)
    \/ \E c \in Conns : RecvError(c)

Spec == Init /\ [][Next]_vars

\* a peer that keeps parking workers: it asks the one service, steps and
\* suspends, cancels, and resumes the first TaskId or one past the table
FullTableClient ==
    [pulls |-> { [k |-> "some", content |-> m] : m \in
                   { Envelope(JStr("request"),
                              JObj(RequestData(JStr("s1"), JStr("a"), JObj(EmptyObject)))),
                     Envelope(JStr("next"), Absent),
                     Envelope(JStr("suspend"), Absent),
                     Envelope(JStr("cancel"), Absent),
                     Envelope(JStr("resume"), JU64(0)),
                     Envelope(JStr("resume"), JU64(Capacity)) } },
     workers |-> Capacity + 1]

InitFull == InitFor({"A"}, {<<"s1", "A">>}, FullTableClient)

SpecFull == InitFull /\ [][Next]_vars

\* peers of two connections: each asks the one service, steps, suspends,
\* cancels and resumes the first TaskId, with one worker at a time
PairClient ==
    [pulls |-> { [k |-> "some", content |-> m] : m \in
                   { Envelope(JStr("request"),
                              JObj(RequestData(JStr("s1"), JStr("a"), JObj(EmptyObject)))),
                     Envelope(JStr("next"), Absent),
                     Envelope(JStr("suspend"), Absent),
                     Envelope(JStr("cancel"), Absent),
                     Envelope(JStr("resume"), JU64(0)) } },
     workers |-> 1]

InitPair == InitFor({"A", "B"}, {<<"s1", "A">>}, PairClient)

SpecPair == InitPair /\ [][Next]_vars

\* a suite set up with several register calls, one name twice, and a peer
\* that asks for both names
CatalogClient ==
    [pulls |-> PairClient.pulls \cup
               { [k |-> "some", content |->
                    Envelope(JStr("request"),
                             JObj(RequestData(JStr("s2"), JStr("a"), JObj(EmptyObject))))] },
     workers |-> 1]

InitCatalog ==
    InitFor({"A"}, {<<"s1", "A">>, <<"s1", "B">>, <<"s2", "A">>}, CatalogClient)

SpecCatalog == InitCatalog /\ [][Next]_vars

\* one connection over a line-delimited flow, either implementation, with a
\* finite input
InitLines ==
    \E flow \in {"iomould", "connector"}, left \in 0..MaxLines :
        InitFor({"A"}, {<<"s1", "A">>}, LineClient(flow, left))

SpecLines == InitLines /\ [][Next]_vars

-----------------------------------------------------------------------------
(* wsmould: Flow for the websocket Client *)

\* the variables of the dispatcher
dispatcher == <<catalog, client, services, serving, pc, session, worker, steps,
                suspended_workers, alive, panicked, last, reqlog>>

Payloads == {"p", "q"}

\* websocket::message::Message by opcode; utf8 tells whether the payload of a
\* text frame is valid UTF-8
Message(opcode, payload, utf8) == [opcode |-> opcode, payload |-> payload, utf8 |-> utf8]

\* what recv_message may deliver: a frame, or a WebSocketError
Frames ==
    { Message("Text", "p", TRUE), Message("Text", "p", FALSE),
      Message("Close", "", FALSE), Message("Binary", "p", FALSE),
      Message("Pong", "q", FALSE), Message("Broken", "", FALSE) }
      \cup { Message("Ping", x, FALSE) : x \in Payloads }

\* a pong that forgets the payload
pongEmpty(payload) == Message("Pong", "", FALSE)

\* Message::pong(message.payload)
pong(payload) == Message("Pong", payload, FALSE)

Recv(message) == [ev |-> "recv", message |-> message]
Send(message, ok) == [ev |-> "send", message |-> message, ok |-> ok]

\* Client::pull on the frames still to come, when the next `sends` calls of
\* send_message succeed; a peer that is gone makes recv_message fail.  The
\* log lists the frames received and the messages sent, in order.
RECURSIVE wsmould_pull(_, _)
wsmould_pull(stream, sends) ==
    IF stream = <<>>
    THEN [ret |-> [k |-> "err", e |-> "ConnectionBroken"],
          log |-> <<Recv(Message("Broken", "", FALSE))>>, stream |-> <<>>]
    ELSE LET message == Head(stream)
             rest    == Tail(stream)
         IN
         CASE message.opcode = "Broken" ->
                [ret |-> [k |-> "err", e |-> "ConnectionBroken"],
                 log |-> <<Recv(message)>>, stream |-> rest]
           [] message.opcode = "Text" ->
                [ret |-> IF message.utf8
                         THEN [k |-> "some", content |-> message.payload]
                         ELSE [k |-> "err", e |-> "BadMessageEncoding"],
                 log |-> <<Recv(message)>>, stream |-> rest]
           [] message.opcode = "Close" ->
                [ret |-> [k |-> "none"], log |-> <<Recv(message)>>, stream |-> rest]
           [] message.opcode = "Ping" ->
                IF sends > 0
                THEN LET r == wsmould_pull(rest, sends - 1) IN
                     [r EXCEPT !.log =
                          <<Recv(message), Send(pong(message.payload), TRUE)>> \o @]
                ELSE [ret |-> [k |-> "err", e |-> "ConnectionBroken"],
                      log |-> <<Recv(message), Send(pong(message.payload), FALSE)>>,
                      stream |-> rest]
           [] message.opcode \in {"Binary", "Pong"} ->
                LET r == wsmould_pull(rest, sends) IN
                [r EXCEPT !.log = <<Recv(message)>> \o @]

RECURSIVE Streams(_)
Streams(n) ==
    IF n = 0 THEN { <<>> }
    ELSE Streams(n - 1) \cup { <<f>> \o t : f \in Frames, t \in Streams(n - 1) }

\* the session pulls from a websocket client as long as it gets text
WsPull ==
    /\ probe.call = "pull"
    /\ probe.ret.k \in {"idle", "some"}
    /\ \E sends \in 0..Len(probe.stream) :
         LET r == wsmould_pull(probe.stream, sends) IN
         probe' = [call |-> "pull", stream |-> r.stream, ret |-> r.ret, log |-> r.log]
    /\ UNCHANGED dispatcher

InitFrames ==
    /\ InitSuite({"A"}, {<<"s1", "A">>}, AnyClient)
    /\ \E stream \in Streams(MaxFrames) :
         probe = [call |-> "pull", stream |-> stream, ret |-> [k |-> "idle"], log |-> <<>>]

NextFrames == WsPull

SpecFrames == InitFrames /\ [][NextFrames]_vars

-----------------------------------------------------------------------------
(* session.rs: the codec by itself. Context::send is applied to two        *)
(* Outputs, Context::recv to two pulled texts, so that what the two make   *)
(* of different values can be compared.                                    *)

\* session.rs: the values of Output
Outputs ==
    { Ready, Done }
      \cup { Item(data) : data \in { EmptyObject, [payload |-> JNull] } }
      \cup { Reject(m) : m \in {"", "m"} }
      \cup { Fail(m) : m \in {"", "m"} }
      \cup { Suspended(n) : n \in 0..(MaxWorkers - 1) }

\* the texts a client can send
Texts == { p \in PullResults : p.k = "some" }

\* Context::send up to the push: the wire objects of two Outputs
Encode ==
    /\ probe.call = "send"
    /\ probe.wires = <<>>
    /\ probe' = [probe EXCEPT !.wires = <<send(probe.outs[1]), send(probe.outs[2])>>]
    /\ UNCHANGED dispatcher

\* Context::recv after the pull: what two texts decode to
Decode ==
    /\ probe.call = "recv"
    /\ probe.inputs = <<>>
    /\ probe' = [probe EXCEPT !.inputs = <<recv(probe.pulls[1]), recv(probe.pulls[2])>>]
    /\ UNCHANGED dispatcher

InitCodec ==
    /\ InitSuite({"A"}, {<<"s1", "A">>}, AnyClient)
    /\ \/ \E o1 \in Outputs, o2 \in Outputs :
            probe = [call |-> "send", outs |-> <<o1, o2>>, wires |-> <<>>]
       \/ \E p1 \in Texts, p2 \in Texts :
            probe = [call |-> "recv", pulls |-> <<p1, p2>>, inputs |-> <<>>]

NextCodec == Encode \/ Decode

SpecCodec == InitCodec /\ [][NextCodec]_vars

-----------------------------------------------------------------------------
(* macros.rs: mould_json! and mould_object!. A macro call is a token tree: *)
(* an array literal, an object literal, or an expression, whose value is   *)
(* handed to ToJson::to_json of rustc_serialize.                           *)

JI64(n) == [k |-> "i64", n |-> n]
JF64(x) == [k |-> "f64", x |-> x]
JBool(b) == [k |-> "bool", b |-> b]
JArr(a) == [k |-> "arr", a |-> a]

\* the value of an expression, with its Rust type
I64(n) == [ty |-> "i64", n |-> n]
U64(n) == [ty |-> "u64", n |-> n]
F64(x) == [ty |-> "f64", x |-> x]
Str(s) == [ty |-> "str", s |-> s]
Bool(b) == [ty |-> "bool", b |-> b]
OfJson(j) == [ty |-> "Json", j |-> j]

\* f64::classify, on the floats of the model
classify(x) ==
    IF x = "NaN" THEN "Nan" ELSE IF x = "inf" THEN "Infinite" ELSE "Normal"

\* rustc_serialize::json::ToJson::to_json
to_json(val) ==
    CASE val.ty = "i64"  -> JI64(val.n)
      [] val.ty = "u64"  -> JU64(val.n)
      [] val.ty = "f64"  -> IF classify(val.x) \in {"Nan", "Infinite"}
                            THEN JNull ELSE JF64(val.x)
      [] val.ty = "str"  -> JStr(val.s)
      [] val.ty = "bool" -> JBool(val.b)
      [] val.ty = "Json" -> val.j

\* Vec::push at the wrong end
pushFront(array, json) == <<json>> \o array

\* Array is Vec<Json>
push(array, json) == Append(array, json)

\* Object is BTreeMap<String, Json>: insert replaces the value of a key
object_insert(object, key, json) ==
    [x \in (DOMAIN object) \cup {key} |-> IF x = key THEN json ELSE object[x]]

TExpr(val) == [t |-> "expr", val |-> val]
TArray(vals) == [t |-> "array", vals |-> vals]
TObject(pairs) == [t |-> "object", pairs |-> pairs]

RECURSIVE mould_json(_)
RECURSIVE PushAll(_, _)
RECURSIVE InsertAll(_, _)

\* $( array.push(mould_json!($val)); )*
PushAll(array, vals) ==
    IF vals = <<>> THEN array
    ELSE PushAll(push(array, mould_json(Head(vals))), Tail(vals))

\* $( object.insert($key.to_owned(), mould_json!($val)); )*
InsertAll(object, pairs) ==
    IF pairs = <<>> THEN object
    ELSE InsertAll(object_insert(object, Head(pairs)[1], mould_json(Head(pairs)[2])),
                   Tail(pairs))

mould_json(tt) ==
    CASE tt.t = "array"  -> JArr(PushAll(<<>>, tt.vals))
      [] tt.t = "object" -> JObj(InsertAll(EmptyObject, tt.pairs))
      [] tt.t = "expr"   -> to_json(tt.val)

mould_object(pairs) == InsertAll(EmptyObject, pairs)

\* the sequences of at most n elements of S
RECURSIVE SeqsUpTo(_, _)
SeqsUpTo(S, n) ==
    IF n = 0 THEN {<<>>}
    ELSE LET shorter == SeqsUpTo(S, n - 1) IN
         shorter \cup { Append(s, x) : s \in {q \in shorter : Len(q) = n - 1}, x \in S }

\* the expressions of the macro calls
Exprs ==
    { TExpr(I64(1)), TExpr(Str("string")), TExpr(OfJson(JNull)) }
      \cup { TExpr(F64(x)) : x \in {"3.1", "NaN"} }

\* what stands inside a literal: an expression, or a literal of its own
Inner ==
    Exprs
      \cup { TArray(vals) : vals \in SeqsUpTo(Exprs, 1) }
      \cup { TObject(pairs) : pairs \in SeqsUpTo({"sub"} \X Exprs, 1) }

Keys == {"one", "two"}

TokenTrees ==
    Exprs
      \cup { TArray(vals) : vals \in SeqsUpTo(Inner, MaxElems) }
      \cup { TObject(pairs) : pairs \in SeqsUpTo(Keys \X Inner, MaxElems) }

\* mould_json!(tt)
ExpandJson ==
    /\ probe.call = "mould_json"
    /\ ~probe.built
    /\ probe' = [probe EXCEPT !.built = TRUE, !.json = mould_json(probe.tt)]
    /\ UNCHANGED dispatcher

\* mould_object!{ pairs }
ExpandObject ==
    /\ probe.call = "mould_object"
    /\ ~probe.built
    /\ probe' = [probe EXCEPT !.built = TRUE,
                              !.json = JObj(mould_object(probe.tt.pairs))]
    /\ UNCHANGED dispatcher

InitMacros ==
    /\ InitSuite({"A"}, {<<"s1", "A">>}, AnyClient)
    /\ \E tt \in TokenTrees :
         \E call \in {"mould_json"} \cup {m \in {"mould_object"} : tt.t = "object"} :
            probe = [call |-> call, tt |-> tt, built |-> FALSE, json |-> JNull]

NextMacros == ExpandJson \/ ExpandObject

SpecMacros == InitMacros /\ [][NextMacros]_vars

\* The dispatcher arm for a prepare that returns Shortcut::OneItemAndDone(o),
\* the result service.rs (Action::from_worker) passes on: the item is sent,
\* then done, and the request loop continues.
OneItemAndDoneOutcomes(c, service_name) ==
    IF service_name \notin DOMAIN services
    THEN { Failed(c, Err("ServiceNotFound")) }
    ELSE IF FreeIds(alive[c]) = {} THEN {}
    ELSE LET id == FreshId(alive[c])
             w0 == route(services[service_name], id)
             w  == [w0 EXCEPT !.prepared = 1]
             al == alive[c] \cup {id}
         IN { Returned(Outcome(<<Item(EmptyObject), Done>>, NoError, "Idle", w,
                               suspended_workers[c], s2, al, "prepare", w),
                       Ok([s |-> "OneItemAndDone"]))
              : s2 \in Mutations(session[c]) }

RecvRequestOneItemAndDone(c) ==
    /\ pc[c] = "Idle"
    /\ \E p \in client.pulls :
         LET r == recv_request_or_resume(p) IN
         /\ r.ok /\ r.v.alt = "Usual"
         /\ r.v.v[1] \in DOMAIN services
         /\ \E oc \in OneItemAndDoneOutcomes(c, r.v.v[1]) :
              \E k \in 0..Len(Sends(oc)) : Finish(c, recv(p), oc, k)

NextShortcut ==
    \/ Next
    \/ \E c \in Conns : RecvRequestOneItemAndDone(c)

SpecShortcut == Init /\ [][NextShortcut]_vars

-----------------------------------------------------------------------------
(* permission.rs: workers that ask the session for a right *)

\* hello.rs: the rights of the example service
Rights == {"CanDoIt"}

\* permission::Error and its display
AccessDenied == [e |-> "AccessDenied", display |-> "access denied"]

\* HasRight, implemented by the user session: the pairs of session state
\* and right the implementation grants
has_right(s, right) == <<s, right>> \in client.grants

\* a check that lets everybody through
requireAlways(s, right) == Ok("unit")

\* impl Require for T: HasRight
require(s, right) ==
    IF has_right(s, right) THEN Ok("unit") ELSE Er(AccessDenied)

\* From<Box<error::Error>> for session::Error: the worker's error is the cause
FromCause(cause) == ErrWith("WorkerFailed", cause.display)

\* lines 46-66 with a worker whose prepare starts with require(right)?
GuardedRequestOutcomes(c, service_name, right) ==
    LET asked == require(session[c], right) IN
    IF service_name \in DOMAIN services /\ FreeIds(alive[c]) # {} /\ ~asked.ok
    THEN LET id == FreshId(alive[c])
             w0 == route(services[service_name], id)
             w  == [w0 EXCEPT !.prepared = 1]
             al == alive[c] \cup {id}
         IN { Returned(Outcome(<<>>, FromCause(asked.err), "Idle", w,
                               suspended_workers[c], session[c], al, "prepare", w),
                       Er(FromCause(asked.err))) }
    ELSE RequestOutcomes(c, service_name)

RecvRequestGuarded(c) ==
    /\ pc[c] = "Idle"
    /\ \E p \in client.pulls, right \in Rights :
         LET r == recv_request_or_resume(p) IN
         /\ r.ok /\ r.v.alt = "Usual"
         /\ \E oc \in GuardedRequestOutcomes(c, r.v.v[1], right) :
              \E k \in 0..Len(Sends(oc)) : Finish(c, recv(p), oc, k)

\* lines 81-112 with a worker whose realize starts with require(right)?
GuardedNextOutcomes(c, right) ==
    LET asked == require(session[c], right)
        w     == worker[c]
    IN
    IF ~asked.ok
    THEN { Returned(Outcome(<<>>, FromCause(asked.err), "Idle", w,
                            suspended_workers[c], session[c], alive[c], "realize", w),
                    Er(FromCause(asked.err))) }
    ELSE NextOutcomes(c)

RecvNextGuarded(c) ==
    /\ pc[c] = "Streaming"
    /\ \E p \in client.pulls, right \in Rights :
         LET r == recv_next_or_suspend(p) IN
         /\ r.ok /\ r.v.alt = "Usual"
         /\ \E oc \in GuardedNextOutcomes(c, right) :
              \E k \in 0..Len(Sends(oc)) : Finish(c, recv(p), oc, k)

\* peers of a suite whose workers all ask for a right first; the user
\* session implements HasRight in any way
GuardedClients ==
    { [pulls |-> PairClient.pulls, workers |-> MaxWorkers, grants |-> g]
        : g \in SUBSET (SessionStates \X Rights) }

InitGuarded ==
    \E peers \in GuardedClients : InitFor({"A"}, {<<"s1", "A">>}, peers)

NextGuarded ==
    \/ \E entry \in catalog : Register(entry[1], entry[2])
    \/ Start
    \/ \E c \in Conns : Accept(c)
    \/ \E c \in Conns : RecvRequestGuarded(c)
    \/ \E c \in Conns : RecvResume(c)
    \/ \E c \in Conns : RecvNextGuarded(c)
    \/ \E c \in Conns : RecvSuspend(c)
    \/ \E c \in Conns : RecvError(c)

SpecGuarded == InitGuarded /\ [][NextGuarded]_vars

TypeOK ==
    /\ \A c \in Conns : pc[c] \in {"New", "Idle", "Streaming", "Terminated"}
    /\ \A c \in Conns : session[c] \in SessionStates
    /\ \A c \in Conns : steps[c] \in 0..MaxSteps
    /\ \A c \in Conns : alive[c] \subseteq 1..client.workers

-----------------------------------------------------------------------------
(* Properties *)

Table(c) == suspended_workers[c]
LastEvents(c) == [i \in 1..Len(last[c].out) |-> EventOf(last[c].out[i])]
WireFail(message) == [event |-> JStr("fail"), data |-> JStr(message)]

\* the workers of a connection that exist outside its suspended-workers table
ActiveWorkers(c) == alive[c] \ { w.id : w \in Parked(Table(c)) }

\* C1: on every connection, in every reachable state, at most one worker
\* exists outside the suspended-workers table, and it is the one the request
\* loop holds.
C1_AtMostOneActive ==
    \A c \in Conns :
        /\ Cardinality(ActiveWorkers(c)) <= 1
        /\ worker[c] # NoWorker => ActiveWorkers(c) = {worker[c].id}

\* a resumed worker is active while another one stays parked
C1_Witness ==
    \E c \in Conns :
        /\ pc[c] = "Streaming"
        /\ last[c].in.ok /\ last[c].in.v.t = "Resume"
        /\ TaskIds(Table(c)) # {}
        /\ Cardinality(ActiveWorkers(c)) = 1

Terminators == {"done", "reject", "fail", "suspended"}

\* the events of the request the handler of this step belongs to
RequestLog(c) ==
    IF pc[c] = "Streaming" THEN reqlog[c] \o HandlerEvents(last'[c])
    ELSE HandlerEvents(last'[c])

\* this step brings the dispatcher back to Idle and its request ended with a
\* closing event (a request ended by cancel has none: it is aborted, not
\* completed)
Completes(c) ==
    /\ pc'[c] = "Idle"
    /\ pc[c] = "Streaming" \/ last'[c].pc = "Idle"
    /\ RequestLog(c) # <<>>
    /\ RequestLog(c)[Len(RequestLog(c))] \in Terminators

ItemsThenDone(log) ==
    /\ log[Len(log)] = "done"
    /\ \A i \in 1..(Len(log) - 1) : log[i] = "item"

SingleRefusal(log) == log \in { <<"reject">>, <<"fail">> }

\* ready, then any run of next / item / ready (a ready is emitted again
\* before every next), closed by one of ends
StreamClosedBy(log, ends) ==
    /\ Len(log) >= 2
    /\ log[1] = "ready"
    /\ log[Len(log)] \in ends
    /\ \A i \in 2..(Len(log) - 1) : log[i] \in {"ready", "next", "item"}

\* what may follow an event inside a stream
Follows(ev) ==
    CASE ev = "ready" -> {"next", "suspended", "fail"}
      [] ev = "next"  -> {"item", "ready", "done", "reject", "fail"}
      [] ev = "item"  -> {"item", "ready", "done"}

StreamShape(log) ==
    /\ Len(log) >= 2
    /\ log[1] = "ready"
    /\ \A i \in 1..(Len(log) - 1) :
         log[i] \in {"ready", "next", "item"} /\ log[i + 1] \in Follows(log[i])

C2_FourStep(c) ==
    Completes(c) =>
        \/ ItemsThenDone(RequestLog(c))
        \/ StreamClosedBy(RequestLog(c), {"done"})
        \/ StreamClosedBy(RequestLog(c), {"suspended"})
        \/ SingleRefusal(RequestLog(c))

C2_Step(c) ==
    Completes(c) =>
        \/ ItemsThenDone(RequestLog(c))
        \/ StreamShape(RequestLog(c))
        \/ SingleRefusal(RequestLog(c))

\* C2 as stated: every completed request matches (item)* done, or
\* ready (next -> (item)*)* done, or ready (next -> (item)*)* suspended, or
\* a single reject or fail with nothing before it.  (The ready the code
\* pushes before every next is let pass.)
C2_FourShapes == [][\A c \in Conns : C2_FourStep(c)]_vars

\* C2 amended: every completed request matches (item)* done, or
\* ready (next -> (item)* ready)* followed by next -> (item)* done, by
\* suspended, by next -> reject or by fail (directly or after a next), or a
\* single reject or fail with nothing before it.
C2_ResponseShape == [][\A c \in Conns : C2_Step(c)]_vars

\* a stream that went through a next was closed by a reject or a fail
C2_Witness ==
    \E c \in Conns :
        /\ pc[c] = "Idle"
        /\ last[c].pc = "Streaming"
        /\ last[c].in.ok /\ last[c].in.v.t = "Next"
        /\ last[c].flow = "ok"
        /\ Len(last[c].out) = 1
        /\ EventOf(last[c].out[1]) \in {"reject", "fail"}

-----------------------------------------------------------------------------
(* The claims below are about single handlers.  last'[c] describes the      *)
(* handler a step of connection c ran; when c does not step, nothing of c   *)
(* changes.  "Flow ok" means every push of the handler succeeded: what a    *)
(* failing push does is the subject of C5.                                  *)

IsInput(l, t) == l.in.ok /\ l.in.v.t = t
FlowOk(l) == l.flow = "ok"
CancelledStream(l) == l.pc = "Streaming" /\ l.in = Er(Err("Canceled"))

\* a request or resume read in Idle is handled as the request loop handles
\* any: a request for a registered service is routed and prepared, a resume
\* of a parked worker enters Streaming with it; neither is refused as
\* unexpected
ServedAsUsual(c) ==
    LET l == last'[c] IN
    /\ l.pc = "Idle"
    /\ (IsInput(l, "Request") \/ IsInput(l, "Resume")) => l.err.e # "UnexpectedState"
    /\ IsInput(l, "Request") /\ l.in.v.service \in DOMAIN services
         => /\ l.called = "prepare"
            /\ l.w.svc = services[l.in.v.service]
            /\ (FlowOk(l) /\ l.err = NoError)
                 => Len(l.out) = 1 /\ EventOf(l.out[1]) \in {"ready", "done", "reject"}
    /\ IsInput(l, "Resume") /\ l.in.v.task_id \in TaskIds(Table(c)) /\ FlowOk(l)
         => /\ pc'[c] = "Streaming"
            /\ worker'[c] = Table(c).entries[l.in.v.task_id].val
            /\ l.out = <<send(Ready)>>

C3_Step(c) ==
    LET l == last'[c] IN
    /\ (pc[c] = "Streaming" /\ CancelledStream(l))
         => /\ l.out = <<>>
            /\ pc'[c] = "Idle"
            /\ worker'[c] = NoWorker
            /\ worker[c].id \notin alive'[c]
    /\ (CancelledStream(last[c]) /\ l # last[c]) => ServedAsUsual(c)

C3_After(c) ==
    CancelledStream(last[c])
        => /\ pc[c] = "Idle"
           /\ worker[c] = NoWorker
           /\ ENABLED RecvRequest(c)
           /\ ENABLED RecvResume(c)

\* C3: a cancel read while Streaming drops the active worker, pushes nothing
\* (no fail, no done, no reject), leaves the dispatcher in Idle, where a
\* request and a resume can be read, and the input read next is served as
\* usual.
C3_CancelSilence ==
    /\ [](\A c \in Conns : C3_After(c))
    /\ [][\A c \in Conns : C3_Step(c)]_vars

\* a stream was cancelled while another worker was parked
C3_Witness ==
    \E c \in Conns :
        /\ CancelledStream(last[c])
        /\ pc[c] = "Idle"
        /\ worker[c] = NoWorker
        /\ TaskIds(Table(c)) # {}

IllegalHere(l) ==
    /\ l.in.ok
    /\ \/ l.pc = "Idle" /\ l.in.v.t \in {"Next", "Suspend"}
       \/ l.pc = "Streaming" /\ l.in.v.t \in {"Request", "Resume"}

C4_Step(c) ==
    LET l == last'[c] IN
    (IllegalHere(l) /\ FlowOk(l))
        => /\ l.out = <<WireFail("unexpected state")>>
           /\ pc'[c] = "Idle"
           /\ worker'[c] = NoWorker
           /\ l.called = "none"
           /\ alive'[c] \subseteq alive[c]
           /\ suspended_workers'[c] = suspended_workers[c]

\* C4: a well-formed input that is not legal where it arrives (next or
\* suspend in Idle, request or resume in Streaming) is answered with exactly
\* one fail "unexpected state" and leaves the dispatcher in Idle; no service
\* is asked, no worker is created or called, the table is not touched.
C4_UnexpectedState == [][\A c \in Conns : C4_Step(c)]_vars

\* a request arrived in the middle of a stream while a worker was parked
C4_Witness ==
    \E c \in Conns :
        /\ last[c].pc = "Streaming"
        /\ IsInput(last[c], "Request")
        /\ FlowOk(last[c])
        /\ TaskIds(Table(c)) # {}

FlowEnded(l) ==
    \/ l.in = Er(Err("ConnectionClosed"))
    \/ ~l.in.ok /\ l.in.err.e = "ConnectorFail"

C5_Step(c) ==
    LET l == last'[c] IN
    /\ (l.pc \in {"Idle", "Streaming"} /\ FlowEnded(l))
         => pc'[c] = "Terminated" /\ l.out = <<>>
    /\ l.flow = "broken"
         => /\ pc'[c] = "Terminated"
            /\ \A i \in 1..Len(l.out) : EventOf(l.out[i]) # "fail"
    /\ pc[c] = "Terminated"
         => /\ pc'[c] = "Terminated"
            /\ last'[c] = last[c]
            /\ reqlog'[c] = reqlog[c]
            /\ UNCHANGED <<session[c], worker[c], steps[c], suspended_workers[c],
                           alive[c]>>

\* C5: in Idle and in Streaming, an orderly close or a flow error of the
\* pull ends the session with nothing pushed, a flow error of a push ends it
\* with no fail pushed for it, and a terminated session takes no further
\* step: no input read, no output pushed.
C5_Terminated == [][\A c \in Conns : C5_Step(c)]_vars

\* a push broke in the middle of the outputs of a stream
C5_Witness ==
    \E c \in Conns :
        /\ pc[c] = "Terminated"
        /\ last[c].pc = "Streaming"
        /\ last[c].flow = "broken"
        /\ Len(last[c].out) >= 1

\* the texts of session.rs, lines 123-137, for the errors a request can raise
C6_Message(err) ==
    CASE err.e = "ServiceNotFound"      -> "service not found"
      [] err.e = "WorkerNotFound"       -> "task not found"
      [] err.e = "CannotSuspend"        -> "cannot suspend worker"
      [] err.e = "UnexpectedState"      -> "unexpected state"
      [] err.e = "IllegalJsonFormat"    -> "illegal json format"
      [] err.e = "IllegalEventType"     -> "illegal event type"
      [] err.e = "IllegalEventName"     -> "illegal event name"
      [] err.e = "IllegalDataFormat"    -> "illegal data format"
      [] err.e = "IllegalRequestFormat" -> "illegal request format"
      [] err.e = "DataNotProvided"      -> "data not provided"
      [] err.e = "WorkerFailed"         -> err.cause

RequestError(l) ==
    l.err.e \notin {"None", "Canceled", "ConnectionClosed", "ConnectorFail"}

C6_Step(c) ==
    LET l == last'[c] IN
    /\ (RequestError(l) /\ FlowOk(l))
         => /\ l.out = <<WireFail(C6_Message(l.err))>>
            /\ pc'[c] = "Idle"
            /\ worker'[c] = NoWorker
    /\ (RequestError(last[c]) /\ FlowOk(last[c]) /\ l # last[c])
         => ServedAsUsual(c)

C6_After(c) ==
    (RequestError(last[c]) /\ FlowOk(last[c]))
        => /\ pc[c] = "Idle"
           /\ ENABLED RecvResume(c)
           /\ FreeIds(alive[c]) # {} => ENABLED RecvRequest(c)

\* C6: every error of a request other than Canceled, ConnectionClosed and a
\* flow failure is answered with exactly one fail that carries the text of
\* the error and leaves the dispatcher in Idle without a worker, where
\* requests and resumes can be read (a request as long as the bound on
\* workers allows one more) and the input read next is served as usual.
C6_FailAndContinue ==
    /\ [](\A c \in Conns : C6_After(c))
    /\ [][\A c \in Conns : C6_Step(c)]_vars

\* a worker failed in realize and the fail was pushed
C6_Witness ==
    \E c \in Conns :
        /\ last[c].err.e = "WorkerFailed"
        /\ last[c].called = "realize"
        /\ FlowOk(last[c])
        /\ pc[c] = "Idle"

UnknownService(l) ==
    /\ l.pc = "Idle"
    /\ IsInput(l, "Request")
    /\ l.in.v.service \notin DOMAIN services

C7_Step(c) ==
    LET l == last'[c] IN
    (UnknownService(l) /\ FlowOk(l))
        => /\ l.out = <<WireFail("service not found")>>
           /\ l.called = "none"
           /\ alive'[c] = alive[c]
           /\ suspended_workers'[c] = suspended_workers[c]
           /\ session'[c] = session[c]
           /\ pc'[c] = "Idle"
           /\ worker'[c] = NoWorker

\* C7: a request read in Idle for a service name the Suite does not hold is
\* answered with exactly one output, fail "service not found"; no worker is
\* created or prepared, the table and the user session state stay as they
\* were and the dispatcher stays in Idle.
C7_ServiceNotFound == [][\A c \in Conns : C7_Step(c)]_vars

\* an unknown service was asked for while a service is registered, a worker
\* is parked and the session state has been changed
C7_Witness ==
    \E c \in Conns :
        /\ UnknownService(last[c])
        /\ FlowOk(last[c])
        /\ DOMAIN services # {}
        /\ TaskIds(Table(c)) # {}
        /\ session[c] # 0

C8_Step(c) ==
    LET l == last'[c]
        old == suspended_workers[c]
        new == suspended_workers'[c]
    IN
    (/\ pc[c] = "Streaming"
     /\ l.pc = "Streaming"
     /\ IsInput(l, "Suspend")
     /\ Cardinality(TaskIds(old)) < Capacity
     /\ FlowOk(l))
        => /\ \E task_id \in DOMAIN old.entries :
                /\ l.out = <<[event |-> JStr("suspended"), data |-> JU64(task_id)]>>
                /\ task_id \notin TaskIds(old)
                /\ new.entries[task_id] = Filled(worker[c])
                /\ TaskIds(new) = TaskIds(old) \cup {task_id}
                /\ \A j \in TaskIds(old) : new.entries[j] = old.entries[j]
           /\ pc'[c] = "Idle"
           /\ worker'[c] = NoWorker
           /\ l.called = "none"
           /\ alive'[c] = alive[c]
           /\ session'[c] = session[c]

\* C8: a suspend read in Streaming while the table is not full stores the
\* active worker, as it is, in a slot that was free, pushes exactly one
\* output, suspended with the key of that slot, and leaves the dispatcher in
\* Idle without an active worker; no worker is called and the other entries
\* stay.
C8_Suspend == [][\A c \in Conns : C8_Step(c)]_vars

\* a worker was parked next to another one
C8_Witness ==
    \E c \in Conns :
        /\ last[c].pc = "Streaming"
        /\ IsInput(last[c], "Suspend")
        /\ FlowOk(last[c])
        /\ pc[c] = "Idle"
        /\ Cardinality(TaskIds(Table(c))) = 2

ResumesParked(c, l) ==
    /\ pc[c] = "Idle"
    /\ l.pc = "Idle"
    /\ IsInput(l, "Resume")
    /\ l.in.v.task_id \in TaskIds(Table(c))

C9_Step(c) ==
    LET l == last'[c]
        old == suspended_workers[c]
        new == suspended_workers'[c]
    IN
    /\ (ResumesParked(c, l) /\ FlowOk(l))
         => /\ TaskIds(new) = TaskIds(old) \ {l.in.v.task_id}
            /\ \A j \in TaskIds(new) : new.entries[j] = old.entries[j]
            /\ pc'[c] = "Streaming"
            /\ worker'[c] = old.entries[l.in.v.task_id].val
            /\ l.out = <<send(Ready)>>
            /\ l.called = "none"
            /\ alive'[c] = alive[c]
    /\ (/\ pc[c] = "Streaming"
        /\ IsInput(last[c], "Resume")
        /\ l.pc = "Streaming"
        /\ IsInput(l, "Next"))
         => /\ l.called = "realize"
            /\ l.w = worker[c]
            /\ l.w.id = last[c].w.id
            /\ l.w.prepared = 1

\* C9: a resume read in Idle for a TaskId the table holds takes that entry,
\* and no other, out of the table and enters Streaming with the worker that
\* was stored under it; exactly one output, ready, is pushed, no worker is
\* called (prepare is not called again), and a next read right after it is
\* handed to the realize of that worker.
C9_Resume == [][\A c \in Conns : C9_Step(c)]_vars

\* a parked worker was resumed and is streaming again, prepared once, while
\* another worker stays parked
C9_Witness ==
    \E c \in Conns :
        /\ pc[c] = "Streaming"
        /\ last[c].pc = "Idle"
        /\ IsInput(last[c], "Resume")
        /\ last[c].called = "none"
        /\ last[c].out = <<send(Ready)>>
        /\ worker[c] = last[c].w
        /\ worker[c].prepared = 1
        /\ last[c].in.v.task_id \notin TaskIds(Table(c))
        /\ TaskIds(Table(c)) # {}

ResumesUnknown(c, l) ==
    /\ pc[c] = "Idle"
    /\ l.pc = "Idle"
    /\ IsInput(l, "Resume")
    /\ l.in.v.task_id \notin TaskIds(Table(c))

C10_Step(c, message) ==
    LET l == last'[c] IN
    (ResumesUnknown(c, l) /\ FlowOk(l))
        => /\ l.out = <<WireFail(message)>>
           /\ suspended_workers'[c] = suspended_workers[c]
           /\ pc'[c] = "Idle"
           /\ worker'[c] = NoWorker
           /\ l.called = "none"

\* C10 as stated: a resume read in Idle for a TaskId the table does not hold
\* is answered with exactly one output, fail "cannot resume", leaves the
\* table as it was and stays in Idle.
C10_CannotResume == [][\A c \in Conns : C10_Step(c, "cannot resume")]_vars

\* C10 amended: a resume read in Idle for a TaskId the table does not hold
\* is answered with exactly one output, fail "task not found", leaves the
\* table as it was and stays in Idle.
C10_TaskNotFound ==
    [][\A c \in Conns : C10_Step(c, "task not found")]_vars

\* a resume named a free slot while another slot held a worker
C10_Witness ==
    \E c \in Conns :
        /\ last[c].pc = "Idle"
        /\ IsInput(last[c], "Resume")
        /\ last[c].err.e = "WorkerNotFound"
        /\ last[c].in.v.task_id \in DOMAIN Table(c).entries
        /\ FlowOk(last[c])
        /\ pc[c] = "Idle"
        /\ TaskIds(Table(c)) # {}

-----------------------------------------------------------------------------

IsFull(slab) == Cardinality(TaskIds(slab)) = Capacity

C11_Step(c, message) ==
    LET l == last'[c] IN
    (/\ pc[c] = "Streaming"
     /\ l.pc = "Streaming"
     /\ IsInput(l, "Suspend")
     /\ IsFull(suspended_workers[c])
     /\ FlowOk(l))
        => /\ l.out = <<WireFail(message)>>
           /\ pc'[c] = "Idle"
           /\ worker'[c] = NoWorker
           /\ worker[c].id \notin alive'[c]
           /\ worker[c] \notin Parked(suspended_workers'[c])
           /\ suspended_workers'[c] = suspended_workers[c]
           /\ l.called = "none"

C11_AtMostCapacity ==
    \A c \in Conns : Cardinality(TaskIds(Table(c))) <= Capacity

\* C11 as stated: with 10 workers in the table a suspend read in Streaming
\* is answered with exactly one output, fail "cannot suspend", the active
\* worker is dropped, the 10 entries stay as they were and the dispatcher
\* returns to Idle; the table never holds more than 10 workers.
C11_CannotSuspend ==
    /\ []C11_AtMostCapacity
    /\ [][\A c \in Conns : C11_Step(c, "cannot suspend")]_vars

\* C11 amended: the same with the text of the fail being "cannot suspend
\* worker".
C11_CannotSuspendWorker ==
    /\ []C11_AtMostCapacity
    /\ [][\A c \in Conns : C11_Step(c, "cannot suspend worker")]_vars

\* a suspend was refused with the table full
C11_Witness ==
    \E c \in Conns :
        /\ pc[c] = "Idle"
        /\ last[c].pc = "Streaming"
        /\ IsInput(last[c], "Suspend")
        /\ last[c].err.e = "CannotSuspend"
        /\ FlowOk(last[c])
        /\ IsFull(Table(c))
        /\ alive[c] = { w.id : w \in Parked(Table(c)) }

-----------------------------------------------------------------------------

\* the TaskIds the handler of this step announced with a suspended output
Announced(l) ==
    { l.out[i]["data"].n : i \in { j \in 1..Len(l.out) : EventOf(l.out[j]) = "suspended" } }

C12_Distinct ==
    \A c \in Conns :
        \A i, j \in TaskIds(Table(c)) :
            i # j => Table(c).entries[i].val.id # Table(c).entries[j].val.id

C12_Step(c) ==
    pc[c] = "Streaming"
        => \A task_id \in Announced(last'[c]) :
              /\ task_id \notin TaskIds(suspended_workers[c])
              /\ task_id \in TaskIds(suspended_workers'[c])
              /\ suspended_workers'[c].entries[task_id].val = worker[c]

\* C12: in every reachable state the TaskIds of a session's table hold
\* different workers, and a TaskId announced with suspended is one no parked
\* worker held when the worker was inserted; it is the key of that worker.
C12_UniqueTaskIds ==
    /\ []C12_Distinct
    /\ [][\A c \in Conns : C12_Step(c)]_vars

\* a TaskId that had been given back was announced again while the first slot
\* is free
C12_Witness ==
    \E c \in Conns :
        /\ pc[c] = "Idle"
        /\ last[c].pc = "Streaming"
        /\ Announced(last[c]) = {1}
        /\ TaskIds(Table(c)) = {1}

-----------------------------------------------------------------------------

Cancelled(l) == l.in = Er(Err("Canceled"))

C13_Step(c) ==
    LET l == last'[c] IN
    /\ (Cancelled(l) /\ pc[c] \in {"Idle", "Streaming"} /\ l.pc = pc[c])
         => /\ suspended_workers'[c] = suspended_workers[c]
            /\ pc'[c] = "Idle"
            /\ l.called = "none"
            /\ Parked(suspended_workers[c]) \subseteq
                 { w \in Parked(suspended_workers'[c]) : w.id \in alive'[c] }
    /\ (Cancelled(last[c]) /\ l # last[c]) => ServedAsUsual(c)

\* what a resume of each parked worker would do in this state
C13_After(c) ==
    Cancelled(last[c])
        => /\ pc[c] = "Idle"
           /\ ENABLED RecvResume(c)
           /\ \A task_id \in TaskIds(Table(c)) :
                LET oc == ResumeOutcome(c, task_id) IN
                /\ oc.pc = "Streaming"
                /\ oc.held = Table(c).entries[task_id].val
                /\ oc.err = NoError

\* C13: a cancel read in Idle or in Streaming leaves the table as it was,
\* the same TaskIds holding the same workers, none of them resumed, removed
\* or dropped; after it every parked worker is still resumed by its TaskId.
C13_CancelKeepsTable ==
    /\ [](\A c \in Conns : C13_After(c))
    /\ [][\A c \in Conns : C13_Step(c)]_vars

\* a cancel was read in Idle with two workers parked
C13_Witness ==
    \E c \in Conns :
        /\ Cancelled(last[c])
        /\ last[c].pc = "Idle"
        /\ pc[c] = "Idle"
        /\ Cardinality(TaskIds(Table(c))) = 2

-----------------------------------------------------------------------------

\* the handler of this step reads a resume of the TaskId the handler before
\* it announced with suspended
ResumesAtOnce(c, l) ==
    /\ pc[c] = "Idle"
    /\ last[c].pc = "Streaming"
    /\ IsInput(last[c], "Suspend")
    /\ FlowOk(last[c])
    /\ Announced(last[c]) # {}
    /\ l.pc = "Idle"
    /\ IsInput(l, "Resume")
    /\ l.in.v.task_id \in Announced(last[c])
    /\ FlowOk(l)

C14_Step(c) ==
    LET l == last'[c] IN
    /\ (pc[c] = "Streaming" /\ l.pc = "Streaming" /\ IsInput(l, "Suspend") /\ FlowOk(l))
         => /\ session'[c] = session[c]
            /\ l.called = "none"
            /\ \A task_id \in Announced(l) :
                 suspended_workers'[c].entries[task_id] = Filled(worker[c])
    /\ (pc[c] = "Idle" /\ l.pc = "Idle" /\ IsInput(l, "Resume") /\ FlowOk(l))
         => /\ session'[c] = session[c]
            /\ l.called = "none"
    /\ ResumesAtOnce(c, l)
         => /\ pc'[c] = "Streaming"
            /\ worker'[c] = last[c].w
            /\ session'[c] = session[c]
            /\ l.out = <<send(Ready)>>
    /\ (pc[c] = "Streaming" /\ IsInput(last[c], "Resume")
          /\ l.pc = "Streaming" /\ IsInput(l, "Next"))
         => /\ l.called = "realize"
            /\ l.w = worker[c]

\* C14: a worker suspended and resumed at once by the TaskId it was announced
\* with is the worker that was streaming, as it was, and the user session
\* state is what it was at the suspend: neither handler calls a worker or
\* changes the session state, and the next read after the resume is handed to
\* the realize of that worker.
C14_SuspendResumeIdentity == [][\A c \in Conns : C14_Step(c)]_vars

\* a worker is streaming again after a resume, the session state changed by
\* an earlier call, the slot it came from at the head of the free list
C14_Witness ==
    \E c \in Conns :
        /\ pc[c] = "Streaming"
        /\ last[c].pc = "Idle"
        /\ IsInput(last[c], "Resume")
        /\ FlowOk(last[c])
        /\ worker[c] = last[c].w
        /\ Table(c).next = last[c].in.v.task_id
        /\ session[c] # 0
        /\ steps[c] = 0

-----------------------------------------------------------------------------

\* all there is to one connection: its dispatcher, its session state, its
\* table and what it last pushed
ConnState(c) ==
    <<pc[c], session[c], worker[c], steps[c], suspended_workers[c], alive[c],
      panicked[c], last[c], reqlog[c]>>

Stepped(c) == ConnState(c)' # ConnState(c)

C15_Step ==
    /\ \A c, d \in Conns :
         (c # d /\ Stepped(c)) => ConnState(d)' = ConnState(d)
    /\ \A c \in Conns :
         LET l == last'[c] IN
         (Stepped(c) /\ pc[c] = "Idle" /\ l.pc = "Idle" /\ IsInput(l, "Resume"))
            => IF l.in.v.task_id \in TaskIds(suspended_workers[c])
               THEN FlowOk(l) =>
                      worker'[c] = suspended_workers[c].entries[l.in.v.task_id].val
               ELSE /\ l.err.e = "WorkerNotFound"
                    /\ worker'[c] = NoWorker
                    /\ pc'[c] # "Streaming"

\* C15: with two connections over one Suite a step of one connection,
\* whatever it reads and pushes (a cancel, a fail, a reject), leaves the
\* dispatcher state, the session state, the table and the outputs of the
\* other as they were; a resume finds a worker only in the table of its own
\* connection, so a TaskId of the other connection is not found.
C15_Isolation == [][C15_Step]_vars

\* one connection was refused the TaskId under which the other one has a
\* worker parked
C15_Witness ==
    \E c, d \in Conns :
        /\ c # d
        /\ IsInput(last[c], "Resume")
        /\ last[c].err.e = "WorkerNotFound"
        /\ FlowOk(last[c])
        /\ pc[c] = "Idle"
        /\ last[c].in.v.task_id \in TaskIds(Table(d))
        /\ last[c].in.v.task_id \notin TaskIds(Table(c))

-----------------------------------------------------------------------------

\* the positions of ready among the outputs of a handler
Readies(l) == { i \in 1..Len(l.out) : l.out[i] = send(Ready) }

\* the handler read a next in Streaming and realize returned res
Realized(c, l, res) ==
    /\ pc[c] = "Streaming"
    /\ l.pc = "Streaming"
    /\ IsInput(l, "Next")
    /\ l.called = "realize"
    /\ l.res = res

\* the read of a connection in Streaming comes after one ready, the last
\* output of the handler before it
C16_ReadyBeforeRead ==
    \A c \in Conns :
        pc[c] = "Streaming"
           => /\ Readies(last[c]) = {Len(last[c].out)}
              /\ Len(last[c].out) >= 1

C16_Step(c) ==
    LET l == last'[c] IN
    /\ (Realized(c, l, Ok([r |-> "OneItem"])) /\ FlowOk(l))
         => /\ l.out = <<send(Item(EmptyObject)), send(Ready)>>
            /\ pc'[c] = "Streaming"
            /\ l.w = worker[c]
            /\ worker'[c] = worker[c]
    /\ (Realized(c, l, Ok([r |-> "Done"])) /\ FlowOk(l))
         => /\ l.out = <<send(Done)>>
            /\ Readies(l) = {}
            /\ pc'[c] = "Idle"
            /\ worker'[c] = NoWorker

\* C16: every read of a next or suspend in Streaming comes after exactly one
\* ready, the last output before it; when realize returns OneItem the
\* handler pushes the item and then ready and stays in Streaming with the
\* same worker; when realize returns Done it pushes done, no ready, and the
\* dispatcher is Idle.
C16_StreamingLoop ==
    []C16_ReadyBeforeRead /\ [][\A c \in Conns : C16_Step(c)]_vars

\* realize returned one item and the stream goes on with the same worker
C16_Witness ==
    \E c \in Conns :
        /\ pc[c] = "Streaming"
        /\ last[c].pc = "Streaming"
        /\ last[c].called = "realize"
        /\ last[c].res = Ok([r |-> "OneItem"])
        /\ last[c].out = <<send(Item(EmptyObject)), send(Ready)>>
        /\ worker[c] = last[c].w
        /\ steps[c] = 1

-----------------------------------------------------------------------------

\* the handler read a request in Idle, found the service, and prepare
\* returned res
Prepared(c, l, res) ==
    /\ pc[c] = "Idle"
    /\ l.pc = "Idle"
    /\ IsInput(l, "Request")
    /\ l.called = "prepare"
    /\ l.res = res

\* the worker of the handler is gone: not active, not parked
Dropped(c, l) ==
    /\ worker'[c] = NoWorker
    /\ l.w.id \notin alive'[c]
    /\ suspended_workers'[c] = suspended_workers[c]

C17_Step(c) ==
    LET l == last'[c] IN
    /\ (Prepared(c, l, Ok([s |-> "Done"])) /\ FlowOk(l))
         => /\ l.out = <<send(Done)>>
            /\ pc'[c] = "Idle"
            /\ Dropped(c, l)
    /\ \A m \in {"no"} :
         (Prepared(c, l, Ok([s |-> "Reject", reason |-> m])) /\ FlowOk(l))
            => /\ l.out = <<send(Reject(m))>>
               /\ pc'[c] = "Idle"
               /\ Dropped(c, l)
    /\ (Prepared(c, l, Ok([s |-> "Tuned"])) /\ FlowOk(l))
         => /\ l.out = <<send(Ready)>>
            /\ pc'[c] = "Streaming"
            /\ worker'[c] = l.w
            /\ l.w.id \in alive'[c]
    /\ (l.pc = "Streaming" /\ pc[c] = "Streaming" /\ l.called = "realize")
         => /\ l.w = worker[c]
            /\ l.w.id \in alive[c]

\* C17: for a request whose service is found the result of prepare decides:
\* Done pushes exactly done and the dispatcher stays Idle, Reject(m) pushes
\* exactly reject(m) and the dispatcher stays Idle, Tuned pushes nothing of
\* its own and enters Streaming, whose first output is ready.  After Done and
\* Reject the worker is gone, neither active nor parked, only prepare was
\* called on it, realize is only ever called on the active worker, and no
\* ready is pushed.
C17_PrepareDecides == [][\A c \in Conns : C17_Step(c)]_vars

\* prepare rejected a request while another worker stays parked
C17_Witness ==
    \E c \in Conns :
        /\ pc[c] = "Idle"
        /\ last[c].pc = "Idle"
        /\ last[c].called = "prepare"
        /\ last[c].res = Ok([s |-> "Reject", reason |-> "no"])
        /\ last[c].out = <<send(Reject("no"))>>
        /\ worker[c] = NoWorker
        /\ last[c].w.id \notin alive[c]
        /\ TaskIds(Table(c)) # {}

-----------------------------------------------------------------------------

C18_Step(c) ==
    LET l == last'[c] IN
    (Prepared(c, l, Ok([s |-> "OneItemAndDone"])) /\ FlowOk(l))
       => /\ l.out = <<send(Item(EmptyObject)), send(Done)>>
          /\ Readies(l) = {}
          /\ pc'[c] = "Idle"
          /\ Dropped(c, l)

-----------------------------------------------------------------------------

\* the results with which prepare and realize refuse
Rejects ==
    { Ok([s |-> "Reject", reason |-> "no"]), Ok([r |-> "Reject", reason |-> "no"]) }

\* the handler called a worker, which returned a reject
Rejected(l) ==
    /\ l.called \in {"prepare", "realize"}
    /\ l.res \in Rejects
    /\ FlowOk(l)

C19_Step(c) ==
    LET l == last'[c] IN
    /\ (pc[c] = l.pc /\ Rejected(l))
         => /\ l.out = <<send(Reject(l.res.v.reason))>>
            /\ EventOf(l.out[1]) = "reject"
            /\ pc'[c] = "Idle"
            /\ Dropped(c, l)
            /\ l.w \notin Parked(suspended_workers'[c])
    /\ (pc[c] = "Idle" /\ Rejected(last[c])
          /\ l.pc = "Idle" /\ IsInput(l, "Next") /\ FlowOk(l))
         => /\ LastEvents(c)' = <<"fail">>
            /\ l.out = <<WireFail("unexpected state")>>
            /\ l.called = "none"
            /\ pc'[c] = "Idle"

\* after a reject every next the peer may send is refused by the gate of the
\* request loop with an error that is reported
C19_After ==
    \A c \in Conns :
        (pc[c] = "Idle" /\ Rejected(last[c]))
           => \A p \in client.pulls :
                (recv(p).ok /\ recv(p).v.t = "Next")
                   => /\ ~recv_request_or_resume(p).ok
                      /\ Reported(recv_request_or_resume(p).err)

\* C19: when a worker returns a reject from prepare or from realize the
\* dispatcher pushes exactly reject(message), not fail, drops the worker and
\* is Idle; the worker is not in the table of suspended workers, and a next
\* that follows is answered with fail.
C19_WorkerReject ==
    []C19_After /\ [][\A c \in Conns : C19_Step(c)]_vars

\* realize rejected in the middle of a stream while another worker stays
\* parked
C19_Witness ==
    \E c \in Conns :
        /\ pc[c] = "Idle"
        /\ last[c].pc = "Streaming"
        /\ last[c].called = "realize"
        /\ Rejected(last[c])
        /\ LastEvents(c) = <<"reject">>
        /\ worker[c] = NoWorker
        /\ last[c].w.id \notin alive[c]
        /\ TaskIds(Table(c)) # {}

-----------------------------------------------------------------------------

\* the pull of the handler reported a text frame that is not UTF-8
BadEncoding(l) == l.in = Er(ErrWith("ConnectorFail", "BadMessageEncoding"))

C20_Step(c) ==
    LET l == last'[c] IN
    (pc[c] \in {"Idle", "Streaming"} /\ l.pc = pc[c] /\ BadEncoding(l))
       => /\ pc'[c] = "Idle"
          /\ FlowOk(l) => LastEvents(c)' = <<"fail">>

\* every request the peer may send next is taken up
C20_Serves ==
    \A c \in Conns :
        (BadEncoding(last[c]) /\ FlowOk(last[c])) => ENABLED RecvRequest(c)

\* C20: when the pull of the flow reports BadMessageEncoding the dispatcher
\* pushes a fail and goes on serving the connection: the session is not
\* terminated, and a valid request sent next is processed.
C20_BadEncodingFails ==
    []C20_Serves /\ [][\A c \in Conns : C20_Step(c)]_vars

-----------------------------------------------------------------------------

\* the handler called a worker whose permission check failed
Denied(l) ==
    /\ l.called \in {"prepare", "realize"}
    /\ l.res = Er(FromCause(AccessDenied))

C21_Step(c) ==
    LET l == last'[c] IN
    (pc[c] = l.pc /\ Denied(l) /\ FlowOk(l))
       => /\ l.err = FromCause(AccessDenied)
          /\ l.out = <<WireFail("access denied")>>
          /\ LastEvents(c)' = <<"fail">>
          /\ pc'[c] = "Idle"
          /\ Dropped(c, l)
          /\ l.w \notin Parked(suspended_workers'[c])

\* C21: when the permission check of a worker fails with AccessDenied in
\* prepare or in realize, the error reaches the dispatcher, which pushes a
\* fail, not a reject, drops the worker and is Idle.
C21_AccessDenied == [][\A c \in Conns : C21_Step(c)]_vars

\* realize was denied in the middle of a stream while another worker stays
\* parked
C21_Witness ==
    \E c \in Conns :
        /\ pc[c] = "Idle"
        /\ last[c].pc = "Streaming"
        /\ last[c].called = "realize"
        /\ Denied(last[c])
        /\ LastEvents(c) = <<"fail">>
        /\ worker[c] = NoWorker
        /\ last[c].w.id \notin alive[c]
        /\ TaskIds(Table(c)) # {}

-----------------------------------------------------------------------------

\* require answers as has_right does, for every session state and right
C22_Answers ==
    \A s \in SessionStates, right \in Rights :
        /\ require(s, right).ok <=> has_right(s, right)
        /\ ~require(s, right).ok => require(s, right).err = AccessDenied

C22_Step(c) ==
    LET l == last'[c] IN
    (pc[c] = l.pc /\ l.called \in {"prepare", "realize"})
       => /\ Denied(l) <=> \E right \in Rights : ~has_right(session[c], right)
          /\ Denied(l) => session'[c] = IF pc'[c] = "Terminated" THEN 0 ELSE session[c]

\* C22: for every session and every right require returns ok exactly when
\* has_right is true and AccessDenied otherwise, and the call does not change
\* the session: a worker that asks first is denied exactly in the session
\* states without the right, and a denied call leaves the session state as it
\* was.
C22_Require == []C22_Answers /\ [][\A c \in Conns : C22_Step(c)]_vars

\* a worker was let through in one session state and denied in another
C22_Witness ==
    \E c \in Conns :
        /\ Denied(last[c])
        /\ FlowOk(last[c])
        /\ session[c] = 1
        /\ ~has_right(1, "CanDoIt")
        /\ has_right(0, "CanDoIt")

-----------------------------------------------------------------------------

\* the event names recv knows
EventNames == {"request", "next", "suspend", "resume", "cancel"}

\* a pulled message that is an object with a string event of another name
UnknownEvent(p) ==
    /\ p.k = "some"
    /\ p.content.k = "obj"
    /\ IsStr(p.content.o, "event")
    /\ p.content.o["event"].s \notin EventNames

IllegalName(l) == ~l.in.ok /\ l.in.err.e = "IllegalEventName"

C23_Classified ==
    \A p \in client.pulls :
        /\ UnknownEvent(p) =>
             /\ recv(p) = Er(ErrWith("IllegalEventName", p.content.o["event"].s))
             /\ recv_request_or_resume(p) = recv(p)
             /\ recv_next_or_suspend(p) = recv(p)
        /\ (~recv(p).ok /\ recv(p).err.e = "IllegalEventName") => UnknownEvent(p)

C23_Step(c) ==
    LET l == last'[c] IN
    (pc[c] \in {"Idle", "Streaming"} /\ pc[c] = l.pc /\ IllegalName(l) /\ FlowOk(l))
       => /\ l.err = l.in.err
          /\ LastEvents(c)' = <<"fail">>
          /\ l.out = <<WireFail("illegal event name")>>
          /\ pc'[c] = "Idle"
          /\ worker'[c] = NoWorker
          /\ worker[c].id \notin alive'[c]
          /\ alive'[c] = alive[c] \ {worker[c].id}
          /\ suspended_workers'[c] = suspended_workers[c]
          /\ l.called = "none"

\* C23: a message whose event name is none of request, next, suspend,
\* resume, cancel is classified IllegalEventName, in Idle and in Streaming;
\* the dispatcher pushes one fail, is Idle afterwards, without the worker
\* that was streaming, and the table of suspended workers is as it was.
C23_IllegalEventName ==
    []C23_Classified /\ [][\A c \in Conns : C23_Step(c)]_vars

\* an unknown event ended a stream while a worker was parked
C23_Witness ==
    \E c \in Conns :
        /\ pc[c] = "Idle"
        /\ last[c].pc = "Streaming"
        /\ IllegalName(last[c])
        /\ FlowOk(last[c])
        /\ last[c].w = NoWorker
        /\ worker[c] = NoWorker
        /\ Cardinality(alive[c]) = 1
        /\ Cardinality(TaskIds(Table(c))) = 1

-----------------------------------------------------------------------------

\* the input of a line-delimited flow is at its end
AtEof == "lines" \in DOMAIN client /\ client.lines = 0

C24_Step(c) ==
    (AtEof /\ pc[c] \in {"Idle", "Streaming"} /\ FlowOk(last'[c]))
       => /\ last'[c].in = Er(Err("ConnectionClosed"))
          /\ last'[c].out = <<>>
          /\ pc'[c] = "Terminated"

\* C24: on the line-delimited transport a read at the end of the input is
\* reported as an orderly close, ConnectionClosed: the dispatcher that reads
\* there pushes nothing and is Terminated.
C24_EofCloses == [][\A c \in Conns : C24_Step(c)]_vars

-----------------------------------------------------------------------------

C25_Pulled ==
    LET log == probe.log
        ret == probe.ret
    IN
    (probe.call = "pull" /\ ret.k # "idle")
       => /\ ret.k \in {"some", "none", "err"}
          /\ ret.k = "some" =>
               /\ log[Len(log)] = Recv(Message("Text", ret.content, TRUE))
          /\ ret.k = "none" => log[Len(log)].message.opcode = "Close"
          /\ ret.k = "err" => ret.e \in {"ConnectionBroken", "BadMessageEncoding"}
          /\ \A i \in 1..Len(log) :
               /\ (log[i].ev = "recv" /\ log[i].message.opcode = "Ping")
                    => /\ i < Len(log)
                       /\ log[i + 1].ev = "send"
                       /\ log[i + 1].message = Message("Pong", log[i].message.payload, FALSE)
               /\ (log[i].ev = "recv" /\ log[i].message.opcode \in {"Binary", "Pong"})
                    => /\ i < Len(log)
                       /\ log[i + 1].ev = "recv"
               /\ log[i].ev = "send"
                    => /\ i > 1
                       /\ log[i - 1].ev = "recv"
                       /\ log[i - 1].message.opcode = "Ping"
                       /\ ~log[i].ok => (i = Len(log) /\ ret = [k |-> "err", e |-> "ConnectionBroken"])
                       /\ log[i].ok => i < Len(log)
               /\ (log[i].ev = "recv" /\ i < Len(log))
                    => log[i].message.opcode \in {"Ping", "Binary", "Pong"}

\* C25: a pull of the websocket flow returns a text message, an orderly
\* close or an error, never a binary, ping or pong frame: binary and pong
\* frames are passed over, every ping is answered with one pong of the same
\* payload before the next frame is received, and a pong that cannot be sent
\* ends the pull with ConnectionBroken.
C25_WsPull == []C25_Pulled

\* a pull answered a ping, passed over a binary frame and returned the text
\* that followed
C25_Witness ==
    /\ probe.call = "pull"
    /\ probe.ret = [k |-> "some", content |-> "p"]
    /\ Len(probe.log) = 4
    /\ probe.log[1] = Recv(Message("Ping", "q", FALSE))
    /\ probe.log[2] = Send(Message("Pong", "q", FALSE), TRUE)
    /\ probe.log[3].message.opcode = "Binary"

-----------------------------------------------------------------------------

C26_Step(c) ==
    LET l == last'[c] IN
    /\ pc[c] = "New" => session'[c] = 0
    /\ (pc[c] \in {"Idle", "Streaming"} /\ pc'[c] # "Terminated"
          /\ session'[c] # session[c])
         => /\ l.pc = pc[c]
            /\ l.called \in {"prepare", "realize"}
            /\ l.w # NoWorker
    /\ (pc[c] \in {"Idle", "Streaming"} /\ pc'[c] # "Terminated"
          /\ l.called = "none")
         => session'[c] = session[c]

\* C26: the user session state is built when the connection is accepted and
\* changes only in a handler that calls prepare or realize of a worker; every
\* other step of a connection that is served on (an input that does not
\* decode, an illegal input, a suspend, a resume, a cancel, a fail) leaves it
\* as it was, so it is carried from one request to the next.
C26_SessionState == [][\A c \in Conns : C26_Step(c)]_vars

\* the session state a worker left behind is still there after a request
\* of the same connection was refused with a fail
C26_Witness ==
    \E c \in Conns :
        /\ pc[c] = "Idle"
        /\ session[c] = 1
        /\ last[c].called = "none"
        /\ last[c].err.e = "ServiceNotFound"
        /\ FlowOk(last[c])

-----------------------------------------------------------------------------

\* what register makes of the suite, for every call the set-up may make
C27_Register ==
    \A entry \in catalog :
        LET new == register(services, entry[1], entry[2]) IN
        /\ new[entry[1]] = entry[2]
        /\ DOMAIN new = (DOMAIN services) \cup {entry[1]}
        /\ \A n \in (DOMAIN services) \ {entry[1]} : new[n] = services[n]

\* a name is in the suite only if a register call put it there
C27_Registered ==
    \A n \in DOMAIN services : <<n, services[n]>> \in catalog

C27_Step(c) ==
    LET l == last'[c] IN
    /\ services' # services
         => \E entry \in catalog :
              /\ DOMAIN services' = (DOMAIN services) \cup {entry[1]}
              /\ services'[entry[1]] = entry[2]
              /\ \A n \in (DOMAIN services) \ {entry[1]} : services'[n] = services[n]
    /\ (pc[c] = "Idle" /\ l.pc = "Idle" /\ IsInput(l, "Request") /\ l # last[c])
         => IF l.in.v.service \in DOMAIN services
            THEN /\ l.called = "prepare"
                 /\ l.w.svc = services[l.in.v.service]
            ELSE /\ l.err.e = "ServiceNotFound"
                 /\ l.called = "none"

\* C27: register overwrites: after any sequence of register calls the
\* service a request finds under a name is the one of the last register call
\* with that name, a register call leaves the services of the other names as
\* they were, and a name that was never registered is not found.
C27_Overwrite ==
    /\ [](C27_Register /\ C27_Registered)
    /\ [][\A c \in Conns : C27_Step(c)]_vars

\* a name was registered twice and a request found the second service,
\* while the other name kept its service
C27_Witness ==
    \E c \in Conns :
        /\ DOMAIN services = {"s1", "s2"}
        /\ services["s1"] = "B"
        /\ services["s2"] = "A"
        /\ IsInput(last[c], "Request")
        /\ last[c].in.v.service = "s1"
        /\ last[c].called = "prepare"
        /\ last[c].w.svc = "B"

-----------------------------------------------------------------------------

\* every wire object send builds is {event, data?} with a string event
WireShape(w) ==
    /\ "event" \in DOMAIN w
    /\ DOMAIN w \subseteq {"event", "data"}
    /\ w["event"].k = "str"

\* a next that carries no payload: data left out, or data null
BareNext(p) ==
    /\ p.content.k = "obj"
    /\ IsStr(p.content.o, "event")
    /\ p.content.o["event"].s = "next"
    /\ ("data" \in DOMAIN p.content.o => p.content.o["data"].k = "null")

\* the Output can be told from its wire object
C28_Encoded ==
    (probe.call = "send" /\ probe.wires # <<>>)
       => /\ WireShape(probe.wires[1])
          /\ WireShape(probe.wires[2])
          /\ probe.wires[1] = probe.wires[2] => probe.outs[1] = probe.outs[2]

\* two texts were decoded to one and the same Input
DecodedAlike ==
    /\ probe.call = "recv"
    /\ probe.inputs # <<>>
    /\ probe.inputs[1].ok
    /\ probe.inputs[1] = probe.inputs[2]

\* C28 as the specification states it: the Output can be recovered from the
\* wire object of send, and a valid Input wire object can be recovered from
\* the Input recv decodes it to (field ordering aside), so that encoding the
\* decoded input gives the wire object back.
C28_RoundTripExact ==
    /\ C28_Encoded
    /\ DecodedAlike => probe.pulls[1] = probe.pulls[2]

\* C28: codec round-trip: for every Output o the wire object send builds
\* is {event, data?} and determines o, so decoding it yields o again; for
\* every valid Input wire object w the Input recv decodes determines w up to
\* field ordering, except that a next with no data and a next whose data is
\* null decode to the same Next(None).
C28_RoundTrip ==
    /\ C28_Encoded
    /\ DecodedAlike
         => \/ probe.pulls[1] = probe.pulls[2]
            \/ BareNext(probe.pulls[1]) /\ BareNext(probe.pulls[2])

\* a request for s1 and a request for s2 were decoded, to different Inputs
C28_Witness ==
    /\ probe.call = "recv"
    /\ probe.inputs # <<>>
    /\ probe.inputs[1].ok /\ probe.inputs[2].ok
    /\ probe.inputs[1].v.t = "Request" /\ probe.inputs[2].v.t = "Request"
    /\ probe.inputs[1].v.service = "s1" /\ probe.inputs[2].v.service = "s2"
    /\ probe.pulls[1] # probe.pulls[2]

-----------------------------------------------------------------------------

\* the JSON variant of the type of a value, with the same value
Variant(val) ==
    CASE val.ty = "i64"  -> JI64(val.n)
      [] val.ty = "u64"  -> JU64(val.n)
      [] val.ty = "f64"  -> JF64(val.x)
      [] val.ty = "str"  -> JStr(val.s)
      [] val.ty = "bool" -> JBool(val.b)
      [] val.ty = "Json" -> val.j

\* the same, but a float that is not a number or not finite becomes null
VariantOrNull(val) ==
    IF val.ty = "f64" /\ val.x \in {"NaN", "inf"} THEN JNull ELSE Variant(val)

\* json is the value the literal tt describes. exact: every expression
\* becomes the variant of its type and every listed pair is in the object;
\* otherwise a float that JSON cannot hold becomes null and a key listed
\* twice has the value listed last.
RECURSIVE Built(_, _, _)
Built(tt, json, exact) ==
    CASE tt.t = "expr" ->
           json = IF exact THEN Variant(tt.val) ELSE VariantOrNull(tt.val)
      [] tt.t = "array" ->
           /\ json.k = "arr"
           /\ Len(json.a) = Len(tt.vals)
           /\ \A i \in 1..Len(tt.vals) : Built(tt.vals[i], json.a[i], exact)
      [] tt.t = "object" ->
           /\ json.k = "obj"
           /\ DOMAIN json.o = { tt.pairs[i][1] : i \in 1..Len(tt.pairs) }
           /\ \A i \in 1..Len(tt.pairs) :
                (exact \/ \A j \in (i + 1)..Len(tt.pairs) : tt.pairs[j][1] # tt.pairs[i][1])
                   => Built(tt.pairs[i][2], json.o[tt.pairs[i][1]], exact)

\* C29 as the specification states it: every scalar expression becomes the
\* JSON variant of its type with the same value, every array literal an
\* array of the same elements in the same order, every object literal an
\* object with exactly the listed keys mapped to the converted values.
C29_BuiltExact ==
    probe.call \in {"mould_json", "mould_object"} /\ probe.built
       => Built(probe.tt, probe.json, TRUE)

\* C29: mould_json! and mould_object! build the JSON value one would build
\* by hand: a scalar expression becomes the JSON variant of its type with
\* the same value, except that a float that is NaN or infinite becomes
\* null; an array literal becomes an array of the converted elements in the
\* same order; an object literal becomes an object with exactly the listed
\* keys, each mapped to the converted value listed last for it, nested
\* literals included.
C29_Built ==
    probe.call \in {"mould_json", "mould_object"} /\ probe.built
       => Built(probe.tt, probe.json, FALSE)

\* the object of test_json_object was built: a float under "one", a nested
\* object under "two"
C29_Witness ==
    /\ probe.call = "mould_object"
    /\ probe.built
    /\ probe.tt = TObject(<< <<"one", TExpr(F64("3.1"))>>,
                             <<"two", TObject(<< <<"sub", TExpr(Str("string"))>> >>)>> >>)
    /\ probe.json = JObj([one |-> JF64("3.1"), two |-> JObj([sub |-> JStr("string")])])

-----------------------------------------------------------------------------

\* the streaming request of c ends in this step and its worker is not parked
EndsStream(c, l) ==
    /\ pc[c] = "Streaming"
    /\ pc'[c] # "Streaming"
    /\ ~(IsInput(l, "Suspend") /\ l.err = NoError)

C30_Step(c) ==
    LET l == last'[c]
        old == suspended_workers[c]
        new == suspended_workers'[c]
    IN
    \* resume(k) takes the worker out of the table
    /\ ResumesParked(c, l)
         => /\ l.in.v.task_id \notin TaskIds(new)
            /\ old.entries[l.in.v.task_id].val \notin Parked(new)
            /\ pc'[c] = "Streaming" => worker'[c] = old.entries[l.in.v.task_id].val
    \* the request ends by cancel, fail, reject or done: the worker is gone
    /\ EndsStream(c, l)
         => /\ worker[c].id \notin alive'[c]
            /\ worker[c] \notin Parked(new)
            /\ worker'[c] = NoWorker
            /\ pc'[c] = "Idle" => new = old
    \* a TaskId comes into the table only by a suspend, which stores the
    \* worker that is streaming
    /\ \A k \in TaskIds(new) \ TaskIds(old) :
         /\ pc[c] = "Streaming"
         /\ l.pc = "Streaming"
         /\ IsInput(l, "Suspend")
         /\ l.out = <<send(Suspended(k))>>
         /\ new.entries[k].val = worker[c]
         /\ worker[c].id \in alive[c]
         /\ TaskIds(new) = TaskIds(old) \cup {k}
    \* a worker comes into being only by the route of a request
    /\ alive'[c] \ alive[c] # {}
         => /\ pc[c] = "Idle"
            /\ IsInput(l, "Request")
            /\ l.called = "prepare"
            /\ alive'[c] \ alive[c] = {l.w.id}
    \* a resume of a TaskId the table does not hold finds no worker
    /\ ResumesUnknown(c, l)
         => /\ l.err.e = "WorkerNotFound"
            /\ l.called = "none"
            /\ new \in {old, with_capacity(Capacity)}
            /\ pc'[c] # "Streaming"

\* the workers of the table are alive, no two of them are one worker, and
\* the worker that is streaming is not among them
C30_Table ==
    \A c \in Conns :
        /\ \A k \in TaskIds(Table(c)) :
             /\ Table(c).entries[k].val.id \in alive[c]
             /\ \A j \in TaskIds(Table(c)) \ {k} :
                  Table(c).entries[j].val.id # Table(c).entries[k].val.id
        /\ pc[c] = "Streaming"
             => /\ worker[c].id \in alive[c]
                /\ \A k \in TaskIds(Table(c)) :
                     Table(c).entries[k].val.id # worker[c].id

\* C30: a suspended worker is resumed at most once per suspension: resume(k)
\* takes the worker out of the table; when that request ends by cancel, by a
\* fail, by reject or by done the worker is dropped and is in no table; k
\* comes back into the table only when a suspend hands it out for the worker
\* that is streaming then, and until it does a resume(k) fails with
\* WorkerNotFound.
C30_ResumeOnce ==
    /\ []C30_Table
    /\ [][\A c \in Conns : C30_Step(c)]_vars

\* slot 0 was taken out by a resume while slot 1 held a worker (its free
\* entry points past slot 1), the resumed worker is gone, only the parked
\* one is left, and another resume of 0 found no worker
C30_Witness ==
    \E c \in Conns :
        /\ pc[c] = "Idle"
        /\ last[c].pc = "Idle"
        /\ IsInput(last[c], "Resume")
        /\ last[c].in.v.task_id = 0
        /\ last[c].err.e = "WorkerNotFound"
        /\ Table(c).entries[0] = Empty(2)
        /\ TaskIds(Table(c)) = {1}
        /\ alive[c] = {Table(c).entries[1].val.id}

-----------------------------------------------------------------------------

\* what a resume of each parked worker, and a suspend of any worker after
\* it, would do to the table of this state
C31_After ==
    \A c \in Conns : \A k \in TaskIds(Table(c)) :
        LET rm  == remove(Table(c), k)
            ins == insert(rm.slab, rm.val)
        IN  /\ rm.found
            /\ TaskIds(rm.slab) = TaskIds(Table(c)) \ {k}
            /\ ins.ok
            /\ ins.task_id \notin TaskIds(rm.slab)
            /\ TaskIds(ins.slab) = TaskIds(rm.slab) \cup {ins.task_id}
            /\ \A j \in TaskIds(rm.slab) : ins.slab.entries[j] = Table(c).entries[j]

C31_Step(c) ==
    LET l == last'[c]
        old == suspended_workers[c]
        new == suspended_workers'[c]
    IN
    \* a resume frees the slot of the resumed worker
    /\ (ResumesParked(c, l) /\ FlowOk(l))
         => /\ TaskIds(new) = TaskIds(old) \ {l.in.v.task_id}
            /\ ~IsFull(new)
            /\ pc'[c] = "Streaming"
    \* the table stays as it is while the request streams
    /\ (pc[c] = "Streaming" /\ pc'[c] = "Streaming") => new = old
    \* a suspend read while a slot is free succeeds
    /\ (/\ pc[c] = "Streaming"
        /\ l.pc = "Streaming"
        /\ IsInput(l, "Suspend")
        /\ ~IsFull(old))
         => /\ l.err = NoError
            /\ FlowOk(l) =>
                 \E k \in (DOMAIN old.entries) \ TaskIds(old) :
                    /\ l.out = <<send(Suspended(k))>>
                    /\ TaskIds(new) = TaskIds(old) \cup {k}
                    /\ new.entries[k] = Filled(worker[c])
                    /\ \A j \in TaskIds(old) : new.entries[j] = old.entries[j]
                    /\ pc'[c] = "Idle"

\* a request that began with a resume streams with a slot free
C31_Resumed ==
    \A c \in Conns :
        (pc[c] = "Streaming" /\ last[c].pc = "Idle" /\ IsInput(last[c], "Resume"))
           => /\ ~IsFull(Table(c))
              /\ SuspendOutcome(c).err = NoError
              /\ SuspendOutcome(c).outs[1].task_id \notin TaskIds(Table(c))

\* C31: the slots of the suspended-workers table are recycled: a resume
\* frees the slot of the resumed worker, so after a resume from a table of
\* 10 workers a following suspend is answered with suspended, not with
\* fail, and the TaskId it announces is one no other parked worker holds,
\* the other entries staying as they were.
C31_Recycled ==
    /\ [](C31_After /\ C31_Resumed)
    /\ [][\A c \in Conns : C31_Step(c)]_vars

\* the table is full again: slot 0, freed by a resume when all 10 slots were
\* taken, was handed out by the suspend that followed
C31_Witness ==
    \E c \in Conns :
        /\ pc[c] = "Idle"
        /\ last[c].pc = "Streaming"
        /\ IsInput(last[c], "Suspend")
        /\ last[c].out = <<send(Suspended(0))>>
        /\ IsFull(Table(c))
        /\ Table(c).entries[0] = Filled(last[c].w)

-----------------------------------------------------------------------------

\* the handler ended with an error that is reported by a fail, and the push
\* of that fail broke
FailPushBroke(l) ==
    /\ l.pc \in {"Idle", "Streaming"}
    /\ RequestError(l)
    /\ l.flow = "broken"

\* a connection that has ended reads nothing and pushes nothing
C32_Ended(c) ==
    panicked[c]
        => /\ pc[c] = "Terminated"
           /\ FailPushBroke(last[c])
           /\ last[c].out = <<>>
           /\ ~ENABLED (RecvRequest(c) \/ RecvResume(c) \/ RecvNext(c)
                           \/ RecvSuspend(c) \/ RecvError(c))

C32_Step(c) ==
    LET l == last'[c] IN
    /\ (FailPushBroke(l) /\ pc[c] = l.pc)
         => /\ pc'[c] = "Terminated"
            /\ panicked'[c]
            /\ l.out = <<>>
            /\ worker'[c] = NoWorker
            /\ alive'[c] = {}
    /\ pc[c] = "Terminated"
         => /\ pc'[c] = "Terminated"
            /\ last'[c] = last[c]
            /\ panicked'[c] = panicked[c]

\* C32: when the push of a fail output breaks, the dispatcher does not go
\* back to Idle: the send result is unwrapped, the session ends there with
\* the fail not pushed, and the connection reads no further input and
\* pushes no further output.
C32_FailPushEnds ==
    /\ [](\A c \in Conns : C32_Ended(c))
    /\ [][\A c \in Conns : C32_Step(c)]_vars

\* a request for an unknown service was to be answered with fail, the push
\* broke and the session is over
C32_Witness ==
    \E c \in Conns :
        /\ panicked[c]
        /\ pc[c] = "Terminated"
        /\ last[c].pc = "Idle"
        /\ last[c].err.e = "ServiceNotFound"
        /\ last[c].flow = "broken"
        /\ last[c].out = <<>>

-----------------------------------------------------------------------------

\* the handler of this step read a request for a registered service
AcceptedRequest(c, l) ==
    /\ pc[c] = "Idle"
    /\ l.pc = "Idle"
    /\ IsInput(l, "Request")
    /\ l.in.v.service \in DOMAIN services

\* the handler of this step read a next in Streaming
NextInStreaming(c, l) ==
    /\ pc[c] = "Streaming"
    /\ l.pc = "Streaming"
    /\ IsInput(l, "Next")

C33_Step(c) ==
    LET l == last'[c] IN
    \* prepare: once, on the fresh worker of the request, before any ready
    /\ AcceptedRequest(c, l)
         => /\ l.called = "prepare"
            /\ l.w.prepared = 1
            /\ l.w.svc = services[l.in.v.service]
            /\ l.w.id \notin alive[c]
            /\ reqlog[c] = <<>>
            /\ Readies(l) # {} => l.res = Ok([s |-> "Tuned"])
    /\ (l.called = "prepare" /\ pc[c] = l.pc) => AcceptedRequest(c, l)
    \* realize: once for the next that was read, on the worker that is
    \* streaming, after the ready that stands last on the wire
    /\ NextInStreaming(c, l)
         => /\ l.called = "realize"
            /\ l.w = worker[c]
            /\ l.w.prepared = 1
            /\ Len(last[c].out) >= 1
            /\ last[c].out[Len(last[c].out)] = send(Ready)
    /\ (l.called = "realize" /\ pc[c] = l.pc) => NextInStreaming(c, l)
    \* resume, suspend and cancel call nothing
    /\ (pc[c] = l.pc /\ (IsInput(l, "Resume") \/ IsInput(l, "Suspend") \/ Cancelled(l)))
         => l.called = "none"
    /\ (ResumesParked(c, l) /\ pc'[c] = "Streaming")
         => /\ worker'[c] = suspended_workers[c].entries[l.in.v.task_id].val
            /\ worker'[c].prepared = 1

\* every worker that exists has been prepared once
C33_PreparedOnce ==
    \A c \in Conns :
        /\ \A w \in Parked(Table(c)) : w.prepared = 1
        /\ pc[c] = "Streaming" => worker[c].prepared = 1

\* C33: worker calls follow the inputs one to one: prepare is called once
\* for every request read in Idle whose service is registered, on the fresh
\* worker of that request and before any ready of it, and for no other
\* input, a resume included; realize is called once for every next read in
\* Streaming, on the worker that is streaming and after a ready, and for no
\* request, resume, suspend or cancel.
C33_CallsFollowInputs ==
    /\ []C33_PreparedOnce
    /\ [][\A c \in Conns : C33_Step(c)]_vars

\* a worker that was parked and resumed serves a next: realize is called on
\* it, and it has been prepared once
C33_Witness ==
    \E c \in Conns :
        /\ last[c].pc = "Streaming"
        /\ IsInput(last[c], "Next")
        /\ last[c].called = "realize"
        /\ last[c].w.prepared = 1
        /\ last[c].res = Ok([r |-> "OneItem"])
        /\ pc[c] = "Streaming"
        /\ worker[c] = last[c].w
        /\ Table(c).entries[0] = Empty(2)
        /\ TaskIds(Table(c)) = {1}

====
